---- MODULE Spec2Model ----
(***************************************************************************)
(* e2find: the two-pass ext2/3/4 scanner of e2find.c (inode scan, dirent   *)
(* scan, parent fix-up, emission) and the listing reader of e2sync.        *)
(*                                                                         *)
(* Bytes are one-character strings; NUL is the token "\\0".  A C string is *)
(* a sequence of bytes.  A 32-bit unsigned timestamp is a pair of 16-bit   *)
(* words <<hi, lo>> (value hi * 65536 + lo), because the checker's         *)
(* integers are 32-bit signed.                                             *)
(***************************************************************************)
EXTENDS Integers, Sequences, FiniteSets, Bags, TLC

(* ------------------------------------------------------------------ *)
(* Program constants                                                   *)
(* ------------------------------------------------------------------ *)
EXT2_ROOT_INO == 2
EXT2_GOOD_OLD_FIRST_INO == 11
ARRAY_MIN_BYTES == 65536
ARRAY_INC_MAX_BYTES == 1048576
\* sizeof(struct inode_t): four 32-bit fields
SIZEOF_INODE_T == 16
\* sizeof(struct dirent_empty_t): two 32-bit fields
SIZEOF_DIRENT_EMPTY_T == 8
\* "if (i > 255)" in dirent_to_path
MAX_COMPONENTS == 255

NUL == "\\0"
NL == "\n"
SLASH == "/"
SP == " "
DOT == "."

(* ------------------------------------------------------------------ *)
(* Bounds of the model                                                 *)
(* ------------------------------------------------------------------ *)
\* PATH_MAX of the platform (limits.h), scaled down so that a path of
\* the small volumes below can overflow the buffer.
PathMax == 7

(* ------------------------------------------------------------------ *)
(* Generic helpers                                                     *)
(* ------------------------------------------------------------------ *)
Min(a, b) == IF a < b THEN a ELSE b
Max(a, b) == IF a > b THEN a ELSE b

Range(s) == {s[k] : k \in DOMAIN s}

RECURSIVE SeqToBag(_)
SeqToBag(s) ==
  IF s = <<>> THEN EmptyBag ELSE SetToBag({Head(s)}) (+) SeqToBag(Tail(s))

\* strlen(): the number of bytes before the first NUL
strlen(s) ==
  LET nuls == {k \in DOMAIN s : s[k] = NUL}
  IN  IF nuls = {} THEN Len(s)
      ELSE (CHOOSE k \in nuls : \A j \in nuls : k <= j) - 1

\* the C string held at the start of a byte sequence
CStr(s) == SubSeq(s, 1, strlen(s))

(* ------------------------------------------------------------------ *)
(* Bitfields (e2find.c 70-101)                                         *)
(* A bitfield is [bytes, bits, past, mapped]: the allocated size, the  *)
(* offsets of the 1 bits inside the allocation, the offsets of the 1   *)
(* bits of the heap bytes that follow the allocation (never            *)
(* initialised by calloc or memset, reached when offset >> 3 >= bytes) *)
(* and whether those bytes are mapped memory at all.                   *)
(* ------------------------------------------------------------------ *)
bitfield_init(nb_bits, heap) ==
  [bytes |-> (nb_bits + 7) \div 8, bits |-> {},
   past |-> heap.bits, mapped |-> heap.mapped]

bitfield_fill(b, nb_bits, bit) ==
  LET bytes == (nb_bits + 7) \div 8
  IN  [b EXCEPT !.bits = IF bit # 0 THEN 0 .. (8 * bytes - 1) ELSE {}]

bitfield_inside(b, offset) == (offset \div 8) < b.bytes

bitfield_set(b, offset) ==
  IF bitfield_inside(b, offset)
    THEN [b EXCEPT !.bits = @ \cup {offset}]
    ELSE [b EXCEPT !.past = @ \cup {offset}]

\* a bitfield_clear that clears nothing
bitfield_clear_nothing(b, offset) == b

bitfield_clear(b, offset) ==
  IF bitfield_inside(b, offset)
    THEN [b EXCEPT !.bits = @ \ {offset}]
    ELSE [b EXCEPT !.past = @ \ {offset}]

bitfield_get(b, offset) ==
  IF bitfield_inside(b, offset)
    THEN (IF offset \in b.bits THEN 1 ELSE 0)
    ELSE (IF offset \in b.past THEN 1 ELSE 0)

\* the access buffer[offset >> 3] touches unmapped memory
bitfield_fault(b, offset) == ~bitfield_inside(b, offset) /\ ~b.mapped

(* ------------------------------------------------------------------ *)
(* Dynamic arrays (e2find.c 104-144)                                   *)
(* buffer maps the byte offset of each stored element to the element.  *)
(* ------------------------------------------------------------------ *)
array_init ==
  [count |-> 0, bytes_used |-> 0, bytes_alloc |-> ARRAY_MIN_BYTES,
   buffer |-> <<>>]

\* an array_add that doubles the allocation at every growth
array_add_doubling(a, elt, bytes, realloc_ok) ==
  LET grow == a.bytes_used + bytes > a.bytes_alloc
  IN  IF grow /\ ~realloc_ok
        THEN [ret |-> 0, a |-> a]
        ELSE [ret |-> 1,
              a |-> [count       |-> a.count + 1,
                     bytes_used  |-> a.bytes_used + bytes,
                     bytes_alloc |-> IF grow THEN 2 * a.bytes_alloc
                                     ELSE a.bytes_alloc,
                     buffer      |-> (a.bytes_used :> elt) @@ a.buffer]]

\* realloc_ok: whether realloc() returns memory when the array must grow
array_add(a, elt, bytes, realloc_ok) ==
  LET grow  == a.bytes_used + bytes > a.bytes_alloc
      alloc == a.bytes_alloc +
               (IF a.bytes_alloc >= ARRAY_INC_MAX_BYTES
                  THEN ARRAY_INC_MAX_BYTES ELSE a.bytes_alloc)
  IN  IF grow /\ ~realloc_ok
        THEN [ret |-> 0, a |-> a]
        ELSE [ret |-> 1,
              a |-> [count       |-> a.count + 1,
                     bytes_used  |-> a.bytes_used + bytes,
                     bytes_alloc |-> IF grow THEN alloc ELSE a.bytes_alloc,
                     buffer      |-> (a.bytes_used :> elt) @@ a.buffer]]

(* ------------------------------------------------------------------ *)
(* InodeTable (e2find.c 147-161, 207-263)                              *)
(* ------------------------------------------------------------------ *)
INODES_NONE == "INODES_NONE"
INODES_MTIME == "INODES_MTIME"
INODES_CTIME == "INODES_CTIME"
INODES_MTIME_CTIME == "INODES_MTIME_CTIME"

\* the process is killed by SIGSEGV (11); the shell reports 128 + 11
SEGV_STATUS == 128 + 11

\* the inode_t record stored at an index; outside the count records the
\* read yields whatever the heap holds there (junk)
inode_at(a, elsize, index, junk) ==
  IF index >= 0 /\ index < a.count THEN a.buffer[elsize * index] ELSE junk

\* a lookup that never scans downwards
lookup_down_none(a, elsize, ino, junk, index0, reads) ==
  [found |-> FALSE, pos |-> index0, reads |-> reads, runaway |-> FALSE]

\* the final short scans.  Beyond the records every read yields the same
\* junk, so a scan that is still going after two such reads never ends
\* by itself: it is reported as runaway.
RECURSIVE lookup_up(_, _, _, _, _, _)
lookup_up(a, elsize, ino, junk, index0, reads) ==
  LET index == index0 + 1
      i     == inode_at(a, elsize, index, junk)
      rd    == Append(reads, index)
  IN  IF i.ino = ino
        THEN [found |-> TRUE, pos |-> index, reads |-> rd, runaway |-> FALSE]
      ELSE IF i.ino < ino
        THEN IF index <= a.count
               THEN lookup_up(a, elsize, ino, junk, index, rd)
               ELSE [found |-> FALSE, pos |-> index, reads |-> rd,
                     runaway |-> TRUE]
        ELSE [found |-> FALSE, pos |-> index, reads |-> rd, runaway |-> FALSE]

RECURSIVE lookup_down(_, _, _, _, _, _)
lookup_down(a, elsize, ino, junk, index0, reads) ==
  LET index == index0 - 1
      i     == inode_at(a, elsize, index, junk)
      rd    == Append(reads, index)
  IN  IF i.ino = ino
        THEN [found |-> TRUE, pos |-> index, reads |-> rd, runaway |-> FALSE]
      ELSE IF i.ino > ino
        THEN IF index >= -1
               THEN lookup_down(a, elsize, ino, junk, index, rd)
               ELSE [found |-> FALSE, pos |-> index, reads |-> rd,
                     runaway |-> TRUE]
        ELSE [found |-> FALSE, pos |-> index, reads |-> rd, runaway |-> FALSE]

\* the bisection loop: have says whether a record was read already (i is
\* not NULL), cur_ino is the ino of the last record read
RECURSIVE lookup_bisect(_, _, _, _, _, _, _, _, _)
lookup_bisect(a, elsize, ino, junk, index0, ihalf0, have, cur_ino, reads) ==
  LET ihalf == ihalf0 \div 2
  IN  IF ihalf > 1
        THEN LET index == IF have /\ cur_ino < ino
                            THEN index0 + ihalf ELSE index0 - ihalf
                 i     == inode_at(a, elsize, index, junk)
                 rd    == Append(reads, index)
             IN  IF i.ino = ino
                   THEN [found |-> TRUE, pos |-> index, reads |-> rd,
                         runaway |-> FALSE]
                   ELSE lookup_bisect(a, elsize, ino, junk, index, ihalf,
                                      TRUE, i.ino, rd)
        ELSE IF ~have \/ cur_ino < ino
               THEN lookup_up(a, elsize, ino, junk,
                              IF ~have THEN -1 ELSE index0, reads)
               ELSE lookup_down(a, elsize, ino, junk, index0, reads)

\* a lookup that walks up from the first record without bisecting
inode_lookup_linear(a, elsize, ino, junk) ==
  lookup_up(a, elsize, ino, junk, -1, <<>>)

\* [found, pos, reads, runaway]: reads lists every index read, in order
inode_lookup(a, elsize, ino, junk) ==
  lookup_bisect(a, elsize, ino, junk, a.count, a.count, FALSE, 0, <<>>)

(* ------------------------------------------------------------------ *)
(* 32-bit unsigned values (__u32, unsigned int) as <<hi, lo>>          *)
(* ------------------------------------------------------------------ *)
U32(hi, lo) == <<hi, lo>>
U32Zero == <<0, 0>>

\* a >= b on unsigned 32-bit values
U32Ge(a, b) == a[1] > b[1] \/ (a[1] = b[1] /\ a[2] >= b[2])
U32Gt(a, b) == a[1] > b[1] \/ (a[1] = b[1] /\ a[2] > b[2])

DigitChar(d) == <<"0", "1", "2", "3", "4", "5", "6", "7", "8", "9">>[d + 1]

\* the decimal digits of n >= 0
RECURSIVE DecDigits(_)
DecDigits(n) ==
  IF n < 10 THEN <<DigitChar(n)>>
  ELSE Append(DecDigits(n \div 10), DigitChar(n % 10))

RECURSIVE PadLeft(_, _, _)
PadLeft(s, width, c) ==
  IF Len(s) >= width THEN s ELSE PadLeft(<<c>> \o s, width, c)

\* the decimal digits of h * 10^4 + l, with 0 <= l < 10^4
DecLimbs(h, l) ==
  IF h = 0 THEN DecDigits(l)
  ELSE DecDigits(h) \o PadLeft(DecDigits(l), 4, "0")

\* the decimal representation of the unsigned value hi * 2^16 + lo
U32Dec(t) ==
  LET r == t[1] * 5536 + t[2]
  IN  DecLimbs(t[1] * 6 + r \div 10000, r % 10000)

\* the decimal representation of the same 32 bits read as a signed int
\* (two's complement), which is what the conversion %d prints
I32Dec(t) ==
  IF t[1] < 32768 THEN U32Dec(t)
  ELSE LET a == 65535 - t[1]          \* 2^32 - t = a * 2^16 + b
           b == 65536 - t[2]
           r == a * 5536 + b
       IN  <<"-">> \o DecLimbs(a * 6 + r \div 10000, r % 10000)

\* snprintf(buf, size, ...): at most size - 1 bytes are kept
snprintf(size, s) == SubSeq(s, 1, Min(Len(s), size - 1))

\* the conversion "%10d " applied to a __u32 (e2find.c 630, 633)
fmt_10d(t) == Append(PadLeft(I32Dec(t), 10, SP), SP)

(* ------------------------------------------------------------------ *)
(* dirent_cb (e2find.c 270-318)                                        *)
(* dirent: [inode, name] as ext2fs_dir_iterate hands it over;          *)
(* cb: [parent_ino, parent_ino_idx].                                   *)
(* Result: ret is 0 (go on), or -1 when err() has ended the process    *)
(* with status.                                                        *)
(* ------------------------------------------------------------------ *)
\* a d.name that holds the whole name of the entry
dirent_name_whole(name, name_len) ==
  name \o [p \in 1 .. 4 - (Len(name) % 4) |-> NUL]

\* d.name: name_len bytes of the name, then padding NULs
dirent_name(name, name_len) ==
  LET padding == 4 - (name_len % 4)
  IN  SubSeq(name, 1, name_len) \o [p \in 1 .. padding |-> NUL]

\* an offset that is kept once it is set
dirent_offset_first(prior, dirents) ==
  IF prior # 0 THEN prior ELSE dirents.bytes_used

\* the value stored by i->dirent = dirents.bytes_used; prior is the
\* value it replaces
dirent_offset(prior, dirents) == dirents.bytes_used

dirent_cb(dirent, cb, inodes, elsize, dirents, junk, realloc_ok) ==
  LET ino      == dirent.inode
      name_len == IF ino = EXT2_ROOT_INO THEN 0 ELSE Len(dirent.name) % 256
      look     == inode_lookup(inodes, elsize, ino, junk)
      inside   == look.pos >= 0 /\ look.pos < inodes.count
      dname    == dirent_name(dirent.name, name_len)
      d        == [ino |-> look.pos, parent |-> cb.parent_ino_idx,
                   name |-> dname]
      added    == array_add(dirents, d,
                            SIZEOF_DIRENT_EMPTY_T + Len(dname), realloc_ok)
      skip     == [ret |-> 0, status |-> 0, inodes |-> inodes,
                   dirents |-> dirents, lookup |-> <<>>]
  IN  IF ino = cb.parent_ino /\ ino # EXT2_ROOT_INO THEN skip
      ELSE IF Len(dirent.name) % 256 = 2 /\ dirent.name[1] = DOT
                                          /\ dirent.name[2] = DOT THEN skip
      \* the scan has left the records and goes on through the heap
      ELSE IF look.runaway
        THEN [ret |-> -1, status |-> SEGV_STATUS, inodes |-> inodes,
              dirents |-> dirents, lookup |-> <<look>>]
      ELSE IF ~look.found
        THEN [ret |-> -1, status |-> 10, inodes |-> inodes,
              dirents |-> dirents, lookup |-> <<look>>]
      ELSE [ret |-> 0, status |-> 0,
            \* i->dirent = dirents.bytes_used (a store outside the
            \* records leaves the records as they are)
            inodes |-> IF inside
                         THEN [inodes EXCEPT
                                 !.buffer[elsize * look.pos].dirent =
                                     dirent_offset(@, dirents)]
                         ELSE inodes,
            dirents |-> added.a,
            lookup |-> <<look>>]

(* ------------------------------------------------------------------ *)
(* dirent_to_path (e2find.c 325-366)                                   *)
(* path is the caller's buffer: a sequence of path_max bytes.          *)
(* Result: [ret, path]; ret 0 success, 1 path[] overflow, 2 too many   *)
(* components.                                                         *)
(* ------------------------------------------------------------------ *)
\* a memcpy that copies nothing
path_copy_nothing(path, pos, src, len) == path

\* path[k] of the C code is element k + 1 of the sequence path.
\* memcpy(&path[pos], src, len)
path_copy(path, pos, src, len) ==
  SubSeq(path, 1, pos) \o SubSeq(src, 1, len)
    \o SubSeq(path, pos + len + 1, Len(path))

\* a dirent_to_path that leaves the path where it was built
path_move_forgotten(path, pos, n) == path

\* memmove(path, &path[pos], n)
path_move(path, pos, n) ==
  SubSeq(path, pos + 1, pos + n) \o SubSeq(path, n + 1, Len(path))

\* a turn of the loop without the test of the number of turns
dirent_to_path_body_unbounded(dirents, st, path_max) ==
  LET d      == st.d
      isroot == (d.name[1] = NUL)
      slash  == (st.i # 0) \/ isroot
      i      == st.i + 1
      pos1   == IF slash THEN st.pos - 1 ELSE st.pos
      path1  == IF slash /\ st.pos >= 1
                  THEN [st.path EXCEPT ![pos1 + 1] = SLASH] ELSE st.path
      wmin1  == IF slash THEN Min(st.wmin, pos1) ELSE st.wmin
      wmax1  == IF slash THEN Max(st.wmax, pos1) ELSE st.wmax
      len    == strlen(d.name)
      pos2   == pos1 - len
      st1    == [st EXCEPT !.i = i, !.path = path1, !.wmin = wmin1,
                           !.wmax = wmax1]
  IN  IF slash /\ st.pos < 1 THEN [st EXCEPT !.i = i, !.ret = 1]
      ELSE IF FALSE THEN [st1 EXCEPT !.ret = 2]
      ELSE IF isroot
        THEN [st1 EXCEPT !.ret = 0,
                         !.path = path_move(path1, pos1, path_max - pos1),
                         !.wmin = Min(wmin1, 0),
                         !.wmax = Max(wmax1, path_max - pos1 - 1)]
      ELSE IF len > pos1 THEN [st1 EXCEPT !.ret = 1]
      ELSE [d    |-> dirents.buffer[d.parent],
            path |-> path_copy(path1, pos2, d.name, len),
            pos  |-> pos2,
            i    |-> i,
            ret  |-> -1,
            wmin |-> IF len > 0 THEN Min(wmin1, pos2) ELSE wmin1,
            wmax |-> IF len > 0 THEN Max(wmax1, pos1 - 1) ELSE wmax1]

\* One turn of while (1), from the loop's state st = [d, path, pos, i,
\* ret, wmin, wmax]: ret is -1 until the function returns; i counts the
\* turns; wmin and wmax are the lowest and the highest index of path
\* written so far.
dirent_to_path_body(dirents, st, path_max) ==
  LET d      == st.d
      isroot == (d.name[1] = NUL)
      slash  == (st.i # 0) \/ isroot
      i      == st.i + 1
      pos1   == IF slash THEN st.pos - 1 ELSE st.pos
      path1  == IF slash /\ st.pos >= 1
                  THEN [st.path EXCEPT ![pos1 + 1] = SLASH] ELSE st.path
      wmin1  == IF slash THEN Min(st.wmin, pos1) ELSE st.wmin
      wmax1  == IF slash THEN Max(st.wmax, pos1) ELSE st.wmax
      len    == strlen(d.name)
      pos2   == pos1 - len
      st1    == [st EXCEPT !.i = i, !.path = path1, !.wmin = wmin1,
                           !.wmax = wmax1]
  IN  IF slash /\ st.pos < 1 THEN [st EXCEPT !.i = i, !.ret = 1]
      ELSE IF i > MAX_COMPONENTS THEN [st1 EXCEPT !.ret = 2]
      ELSE IF isroot
        THEN [st1 EXCEPT !.ret = 0,
                         !.path = path_move(path1, pos1, path_max - pos1),
                         !.wmin = Min(wmin1, 0),
                         !.wmax = Max(wmax1, path_max - pos1 - 1)]
      ELSE IF len > pos1 THEN [st1 EXCEPT !.ret = 1]
      ELSE [d    |-> dirents.buffer[d.parent],
            path |-> path_copy(path1, pos2, d.name, len),
            pos  |-> pos2,
            i    |-> i,
            ret  |-> -1,
            wmin |-> IF len > 0 THEN Min(wmin1, pos2) ELSE wmin1,
            wmax |-> IF len > 0 THEN Max(wmax1, pos1 - 1) ELSE wmax1]

\* n turns of the loop, the first half and then the rest; no turn is
\* taken once the function has returned
RECURSIVE dirent_to_path_loop(_, _, _, _)
dirent_to_path_loop(dirents, st, path_max, n) ==
  IF st.ret # -1 THEN st
  ELSE IF n <= 1 THEN dirent_to_path_body(dirents, st, path_max)
  ELSE dirent_to_path_loop(
         dirents,
         dirent_to_path_loop(dirents, st, path_max, n \div 2),
         path_max, n - n \div 2)

\* while (1) is followed for this many turns: twice those it can take
\* before i > 255 ends it
LoopTurns == 2 * (MAX_COMPONENTS + 1)

\* [ret, path, i, wmin, wmax]; ret = -1: the loop has not returned
dirent_to_path(dirents, d, path, path_max) ==
  LET st == dirent_to_path_loop(
              dirents,
              [d    |-> d,
               path |-> [path EXCEPT ![path_max] = NUL],
               pos  |-> path_max - 1,
               i    |-> 0,
               ret  |-> -1,
               wmin |-> path_max - 1,
               wmax |-> path_max - 1],
              path_max, LoopTurns)
  IN  [ret |-> st.ret, path |-> st.path, i |-> st.i,
       wmin |-> st.wmin, wmax |-> st.wmax]

\* char path[PATH_MAX] before it is written: bytes of the stack
UNINIT == "?"
path_buffer(path_max) == [k \in 1 .. path_max |-> UNINIT]

\* the C string a buffer holds from index 0
buffer_string(path) == CStr(path)

(* ------------------------------------------------------------------ *)
(* The volume, as the ext2fs library shows it to main()                *)
(*   inodes_count : fs->super->s_inodes_count                          *)
(*   inode[ino]   : [dir, links_count, mtime, ctime] for 1..count      *)
(*   dir[ino]     : the entries ext2fs_dir_iterate delivers, in order  *)
(* ------------------------------------------------------------------ *)
\* s_inodes_count of the modelled volumes: a multiple of 8, as mke2fs
\* makes every inode count
InodesCount == 16

\* the inode numbers a volume may use besides the root
CandidateInos == {11, 12, 13, InodesCount}
\* at most this many of them are in use
MaxUsed == 3

\* the name of the first entry of an inode, and of an extra hard link
FirstName(c) ==
  CASE c = 11 -> <<"a">>
    [] c = 12 -> <<"b">>
    [] c = 13 -> <<"c">>
    [] OTHER  -> <<"d">>
LinkName == <<"l", NL>>

\* 131071 and 131072
OldTime == U32(1, 65535)
NewTime == U32(2, 0)

RECURSIVE ReachesRoot(_, _, _)
ReachesRoot(par, c, fuel) ==
  IF c = EXT2_ROOT_INO THEN TRUE
  ELSE IF fuel = 0 \/ par[c] = 0 THEN FALSE
  ELSE ReachesRoot(par, par[c], fuel - 1)

\* A layout: par[c] is the directory holding the first name of c (0: c
\* is free), dirs the directories, extra the extra hard links <<file,
\* directory>> (at most one in a volume).
LayoutUsed(l) == {c \in CandidateInos : l.par[c] # 0}

ExtraLinkSets ==
  {{}} \cup {{e} : e \in CandidateInos \X ({EXT2_ROOT_INO} \cup CandidateInos)}

Layouts ==
  {l \in [par   : [CandidateInos -> {0, EXT2_ROOT_INO} \cup CandidateInos],
          dirs  : SUBSET CandidateInos,
          extra : ExtraLinkSets] :
     /\ Cardinality(LayoutUsed(l)) <= MaxUsed
     /\ l.dirs \subseteq LayoutUsed(l)
     /\ \A c \in LayoutUsed(l) :
          /\ l.par[c] \in ({EXT2_ROOT_INO} \cup l.dirs) \ {c}
          /\ ReachesRoot(l.par, c, Cardinality(CandidateInos))
     /\ \A e \in l.extra :
          /\ e[1] \in LayoutUsed(l) \ l.dirs
          /\ e[2] \in {EXT2_ROOT_INO} \cup l.dirs}

\* the elements of a finite set of integers, ascending
RECURSIVE SortedSeq(_)
SortedSeq(S) ==
  IF S = {} THEN <<>>
  ELSE LET m == CHOOSE x \in S : \A y \in S : x <= y
       IN  <<m>> \o SortedSeq(S \ {m})

\* the entries of directory d: ".", "..", the first names in ascending
\* inode order, then the extra hard links
LayoutDir(l, d) ==
  LET up     == IF d = EXT2_ROOT_INO THEN d ELSE l.par[d]
      first  == SortedSeq({c \in LayoutUsed(l) : l.par[c] = d})
      links  == SortedSeq({e[1] : e \in {x \in l.extra : x[2] = d}})
  IN  <<[inode |-> d, name |-> <<DOT>>], [inode |-> up, name |-> <<DOT, DOT>>]>>
      \o [k \in 1 .. Len(first) |->
            [inode |-> first[k], name |-> FirstName(first[k])]]
      \o [k \in 1 .. Len(links) |->
            [inode |-> links[k], name |-> LinkName]]

\* times[ino] = [mtime, ctime] for the inodes in use
MakeVolume(l, times) ==
  LET dirs == {EXT2_ROOT_INO} \cup l.dirs
      used == {EXT2_ROOT_INO} \cup LayoutUsed(l)
  IN  [inodes_count |-> InodesCount,
       inode |->
         [ino \in 1 .. InodesCount |->
            IF ino \in used
              THEN [dir |-> ino \in dirs,
                    links_count |->
                      IF ino \in dirs
                        THEN 2 + Cardinality({c \in l.dirs : l.par[c] = ino})
                        ELSE 1 + Cardinality({e \in l.extra : e[1] = ino}),
                    mtime |-> times[ino].mtime,
                    ctime |-> times[ino].ctime]
              \* the resize (7) and journal (8) inodes carry one link
              ELSE [dir |-> FALSE,
                    links_count |-> IF ino \in {7, 8} THEN 1 ELSE 0,
                    mtime |-> U32Zero, ctime |-> U32Zero]],
       dir |-> [d \in dirs |-> LayoutDir(l, d)]]

AllOld == [ino \in 1 .. InodesCount |-> [mtime |-> OldTime, ctime |-> OldTime]]

\* the inodes in use (ext2 sense): linked, and not reserved unless root
VolumeUsed(v) ==
  {ino \in 1 .. v.inodes_count :
     /\ v.inode[ino].links_count > 0
     /\ (ino >= EXT2_GOOD_OLD_FIRST_INO \/ ino = EXT2_ROOT_INO)}

(* ------------------------------------------------------------------ *)
(* main() of e2find.c as a machine m:                                  *)
(*   opt       the options given [after, show_mtime, show_ctime,       *)
(*             unique, print0]                                         *)
(*   newline   the record terminator                                   *)
(*   pc        "pass1" | "pass2" | "fixup" | "emit" | "exit"           *)
(*   status    the exit status once pc = "exit", else -1               *)
(*   scan      the inode number the inode scan delivers next           *)
(*   index, anyp   the loop variables of main                          *)
(*   entry     position in the directory being iterated (0: none)      *)
(*   fs_open   the volume handle is open                               *)
(* ------------------------------------------------------------------ *)
\* e2find.c 461-476
eltype_of(o) ==
  IF o.show_mtime /\ o.show_ctime THEN INODES_MTIME_CTIME
  ELSE IF o.show_mtime THEN INODES_MTIME
  ELSE IF o.show_ctime THEN INODES_CTIME
  ELSE INODES_NONE

elsize_of(o) ==
  IF o.show_mtime /\ o.show_ctime THEN SIZEOF_INODE_T
  ELSE IF o.show_mtime \/ o.show_ctime THEN SIZEOF_INODE_T - 4
  ELSE SIZEOF_INODE_T - 8

\* the state when the inode scan has been opened (e2find.c 442-492);
\* e is the platform of the run: what lies behind each bitfield's
\* allocation (e.iisdir, e.iselect) and PATH_MAX (e.path_max)
Start(v, o, e) ==
  LET sel == bitfield_init(v.inodes_count, e.iselect)
  IN  [opt     |-> o,
       newline |-> IF o.print0 THEN NUL ELSE NL,
       path_max |-> e.path_max,
       pc      |-> "pass1",
       status  |-> -1,
       fs_open |-> TRUE,
       iisdir  |-> bitfield_init(v.inodes_count, e.iisdir),
       iselect |-> IF o.after = U32Zero
                     THEN bitfield_fill(sel, v.inodes_count, 1) ELSE sel,
       inodes  |-> array_init,
       dirents |-> array_init,
       inodes_eltype |-> eltype_of(o),
       inodes_elsize |-> elsize_of(o),
       scan    |-> 1,
       index   |-> 0,
       anyp    |-> 0,
       entry   |-> 0,
       stdout  |-> <<>>,
       stderr  |-> <<>>]

exit(m, status) == [m EXCEPT !.pc = "exit", !.status = status]

segv(m) == exit(m, SEGV_STATUS)

\* the loop heads of passes 3, 2.5 and 2: a loop over no element falls
\* through to the next one
enter_emit(m) ==
  IF m.dirents.count = 0 THEN exit(m, 0)
  ELSE [m EXCEPT !.pc = "emit", !.index = 0, !.anyp = 0]

enter_fixup(m) ==
  IF m.dirents.count = 0 THEN enter_emit(m)
  ELSE [m EXCEPT !.pc = "fixup", !.index = 0, !.anyp = 0]

\* a pass 2 that ends without closing the volume
leave_pass2_open(m) == enter_fixup(m)

\* e2find.c 578-580: the dirent scan is over, the volume is closed
leave_pass2(m) == enter_fixup([m EXCEPT !.fs_open = FALSE])

enter_pass2(m) ==
  IF m.inodes.count = 0 THEN leave_pass2([m EXCEPT !.pc = "pass2"])
  ELSE [m EXCEPT !.pc = "pass2", !.index = 0, !.entry = 0]

\* an inode_t whose time1 is always the ctime
inode_record_ctime_first(eltype, ino, inode) ==
  CASE eltype = INODES_NONE  -> [ino |-> ino, dirent |-> 0]
    [] eltype \in {INODES_MTIME, INODES_CTIME} ->
         [ino |-> ino, dirent |-> 0, time1 |-> inode.ctime]
    [] OTHER -> [ino |-> ino, dirent |-> 0,
                 time1 |-> inode.ctime, time2 |-> inode.mtime]

\* the inode_t appended for an inode (e2find.c 521-539): the first
\* inodes_elsize bytes of the struct
inode_record(eltype, ino, inode) ==
  CASE eltype = INODES_NONE  -> [ino |-> ino, dirent |-> 0]
    [] eltype = INODES_MTIME -> [ino |-> ino, dirent |-> 0, time1 |-> inode.mtime]
    [] eltype = INODES_CTIME -> [ino |-> ino, dirent |-> 0, time1 |-> inode.ctime]
    [] OTHER -> [ino |-> ino, dirent |-> 0,
                 time1 |-> inode.mtime, time2 |-> inode.ctime]

\* Pass 1, one turn of the loop (e2find.c 493-540).  ret is what
\* ext2fs_get_next_inode returns; the scan delivers the inodes
\* 1 .. inodes_count in order and then ino = 0.
pass1_iter(m, v, ret, realloc_ok) ==
  LET ino   == IF m.scan <= v.inodes_count THEN m.scan ELSE 0
      next  == [m EXCEPT !.scan = IF ino = 0 THEN @ ELSE @ + 1]
      inode == v.inode[ino]
      isdir == IF inode.dir THEN bitfield_set(m.iisdir, ino) ELSE m.iisdir
      after == m.opt.after # U32Zero
                 /\ (U32Ge(inode.mtime, m.opt.after)
                       \/ U32Ge(inode.ctime, m.opt.after))
      sel   == IF after THEN bitfield_set(m.iselect, ino) ELSE m.iselect
      added == array_add(m.inodes,
                         inode_record(m.inodes_eltype, ino, inode),
                         m.inodes_elsize, realloc_ok)
  IN  IF ret # 0
        THEN [next EXCEPT !.stderr =
                Append(@, [warning |-> "scan error", ino |-> ino, ret |-> ret])]
      ELSE IF ino = 0 THEN enter_pass2(m)
      ELSE IF (ino < EXT2_GOOD_OLD_FIRST_INO /\ ino # EXT2_ROOT_INO)
                \/ inode.links_count = 0
        THEN next
      ELSE IF (inode.dir /\ bitfield_fault(m.iisdir, ino))
                \/ (after /\ bitfield_fault(m.iselect, ino))
        THEN segv(m)
      ELSE [next EXCEPT !.iisdir = isdir, !.iselect = sel, !.inodes = added.a]

\* Pass 2, the head of the loop (e2find.c 554-576) up to the call of
\* ext2fs_dir_iterate, which refuses an inode that is no directory;
\* ret is the error the library returns for a directory it cannot read
pass2_head(m, v, ret) ==
  LET ip  == m.inodes.buffer[m.inodes_elsize * m.index]
      ino == ip.ino
      nxt == IF m.index + 1 < m.inodes.count
               THEN [m EXCEPT !.index = @ + 1, !.entry = 0]
               ELSE leave_pass2(m)
  IN  IF bitfield_fault(m.iisdir, ino) THEN segv(m)
      ELSE IF bitfield_get(m.iisdir, ino) = 0 THEN nxt
      ELSE IF ~v.inode[ino].dir \/ ret # 0 THEN exit(m, 8)
      ELSE IF Len(v.dir[ino]) = 0 THEN nxt
      ELSE [m EXCEPT !.entry = 1]

\* Pass 2, one call of dirent_cb by ext2fs_dir_iterate
pass2_cb(m, v, junk, realloc_ok) ==
  LET ip  == m.inodes.buffer[m.inodes_elsize * m.index]
      ino == ip.ino
      cb  == [parent_ino |-> ino, parent_ino_idx |-> m.index]
      r   == dirent_cb(v.dir[ino][m.entry], cb, m.inodes, m.inodes_elsize,
                       m.dirents, junk, realloc_ok)
      m1  == [m EXCEPT !.inodes = r.inodes, !.dirents = r.dirents]
  IN  IF r.ret # 0 THEN exit(m1, r.status)
      ELSE IF m.entry < Len(v.dir[ino]) THEN [m1 EXCEPT !.entry = @ + 1]
      ELSE IF m.index + 1 < m.inodes.count
        THEN [m1 EXCEPT !.index = @ + 1, !.entry = 0]
      ELSE leave_pass2(m1)

\* a record length without the padding
dirent_stride_unpadded(name) == SIZEOF_DIRENT_EMPTY_T + strlen(name) + 1

\* sizeof(struct dirent_empty_t) + ((name_len + 4) & ~3)
dirent_stride(name) == SIZEOF_DIRENT_EMPTY_T + ((strlen(name) + 4) \div 4) * 4

\* Pass 2.5, one turn of the loop (e2find.c 585-597)
fixup_iter(m) ==
  LET d  == m.dirents.buffer[m.anyp]
      ip == m.inodes.buffer[m.inodes_elsize * d.parent]
      m1 == [m EXCEPT !.dirents.buffer[m.anyp].parent = ip.dirent,
                      !.anyp = @ + dirent_stride(d.name),
                      !.index = @ + 1]
  IN  IF m.index + 1 < m.dirents.count THEN m1 ELSE enter_emit(m1)

\* the prefix of a record (e2find.c 624-635)
record_prefix(eltype, i) ==
  CASE eltype = INODES_NONE -> <<>>
    [] eltype \in {INODES_MTIME, INODES_CTIME} -> snprintf(32, fmt_10d(i.time1))
    [] OTHER -> snprintf(32, fmt_10d(i.time1) \o fmt_10d(i.time2))

\* Pass 3, one turn of the loop (e2find.c 602-641).  A record written
\* to stdout is [prefix, path, term]; at is the offset of its dirent.
emit_iter(m) ==
  LET d    == m.dirents.buffer[m.anyp]
      i    == m.inodes.buffer[m.inodes_elsize * d.ino]
      sel  == bitfield_get(m.iselect, i.ino) # 0
      r    == dirent_to_path(m.dirents, d, path_buffer(m.path_max),
                             m.path_max)
      m1   == [m EXCEPT !.anyp = @ + dirent_stride(d.name), !.index = @ + 1]
      m2   == IF sel /\ m.opt.unique
                THEN [m1 EXCEPT !.iselect = bitfield_clear(@, i.ino)] ELSE m1
      m3   == IF ~sel THEN m2
              ELSE IF r.ret # 0
                THEN [m2 EXCEPT !.stderr =
                        Append(@, [warning |-> "path resolution error",
                                   ino |-> d.ino, ret |-> r.ret])]
              ELSE [m2 EXCEPT !.stdout =
                      Append(@, [prefix |-> record_prefix(m.inodes_eltype, i),
                                 path   |-> buffer_string(r.path),
                                 term   |-> m.newline,
                                 at     |-> m.anyp])]
  IN  IF bitfield_fault(m.iselect, i.ino) THEN segv(m)
      ELSE IF m.index + 1 < m.dirents.count THEN m3 ELSE exit(m3, 0)

(* ------------------------------------------------------------------ *)
(* e2sync (part_004, the script from line 482 on): the reader of the   *)
(* two listings, the classification and the list handed to rsync.      *)
(* The machine s:                                                      *)
(*   pc      "off" | "read" | "classify" | "prune" | "exit"            *)
(*   status  the exit status once pc = "exit", else -1                 *)
(*   open    the handles still in $io ("src", "dst")                   *)
(*   pos     the bytes read so far from each handle                    *)
(*   files   %files: path -> [src_mtime, src_ctime, dst_mtime,         *)
(*           dst_ctime]                                                *)
(*   deleted %deleted, as the set of its keys                          *)
(*   todo    the keys the running each() loop has still to deliver     *)
(*   list    the paths printed to rsync                                *)
(*   parsed  what the reader has parsed, in order (not in the script)  *)
(* ------------------------------------------------------------------ *)
Digits == {"0", "1", "2", "3", "4", "5", "6", "7", "8", "9"}
DigitValue(c) == CHOOSE d \in 0 .. 9 : DigitChar(d) = c

\* 0 + $text packed as "L": the value of a digit string, modulo 2^32
RECURSIVE atou32(_, _)
atou32(digits, acc) ==
  IF digits = <<>> THEN acc
  ELSE LET lo == acc[2] * 10 + DigitValue(Head(digits))
           hi == acc[1] * 10 + lo \div 65536
       IN  atou32(Tail(digits), <<hi % 65536, lo % 65536>>)

\* the length of the longest prefix of s made of characters of C
RECURSIVE span(_, _)
span(s, C) ==
  IF s = <<>> \/ Head(s) \notin C THEN 0 ELSE 1 + span(Tail(s), C)

\* the length of the longest prefix of s without the character c
RECURSIVE span_until(_, _)
span_until(s, c) ==
  IF s = <<>> \/ Head(s) = c THEN 0 ELSE 1 + span_until(Tail(s), c)

Drop(s, n) == SubSeq(s, n + 1, Len(s))

\* (\d+)(?:\.\d+)? matched at the start of s
match_number(s) ==
  LET n == span(s, Digits)
      r == Drop(s, n)
      f == IF r # <<>> /\ Head(r) = DOT THEN span(Tail(r), Digits) ELSE 0
  IN  [ok |-> n > 0, digits |-> SubSeq(s, 1, n),
       rest |-> IF f > 0 THEN Drop(r, 1 + f) ELSE r]

\* $in =~ /^ *(\d+)(?:\.\d+)? +(\d+)(?:\.\d+)? (.*)/ ; "." matches
\* every character but the newline
parse_record(in) ==
  LET s1 == Drop(in, span(in, {SP}))
      m  == match_number(s1)
      sp == span(m.rest, {SP})
      c  == match_number(Drop(m.rest, sp))
      ok == m.ok /\ sp >= 1 /\ c.ok /\ c.rest # <<>> /\ Head(c.rest) = SP
      p  == Tail(c.rest)
  IN  IF ~ok THEN [ok |-> FALSE, mtime |-> <<>>, ctime |-> <<>>, path |-> <<>>]
      ELSE [ok |-> TRUE, mtime |-> m.digits, ctime |-> c.digits,
            path |-> SubSeq(p, 1, span_until(p, NL))]

\* chomp with $/ = "\0"
chomp(in) ==
  IF in # <<>> /\ in[Len(in)] = NUL THEN SubSeq(in, 1, Len(in) - 1) ELSE in

\* <$fh> with $/ = "\0": the bytes after pos up to and with the next NUL
readline(bytes, pos) ==
  LET rest == Drop(bytes, pos)
      n    == span_until(rest, NUL)
  IN  SubSeq(rest, 1, Min(n + 1, Len(rest)))

NoTimes ==
  [src_mtime |-> U32Zero, src_ctime |-> U32Zero,
   dst_mtime |-> U32Zero, dst_ctime |-> U32Zero]

sync_exit(s, status) == [s EXCEPT !.pc = "exit", !.status = status]

\* the end of the script (part_004 687-697): the keys of %files are
\* printed to rsync
sync_rsync(s) == sync_exit([s EXCEPT !.list = DOMAIN s.files], 0)

\* the keys of h but those of K
hash_delete(h, K) == [k \in (DOMAIN h) \ K |-> h[k]]

\* the head of the loop over %deleted
sync_enter_prune(s) ==
  IF s.deleted = {} THEN sync_rsync(s)
  ELSE [s EXCEPT !.pc = "prune", !.todo = s.deleted]

\* after the loop over %files: $files{'/'} = 1 (the value is not used)
sync_leave_classify(s) ==
  sync_enter_prune([s EXCEPT !.files = (<<SLASH>> :> 1) @@ s.files])

\* the head of the loop over %files
sync_enter_classify(s) ==
  IF DOMAIN s.files = {} THEN sync_leave_classify(s)
  ELSE [s EXCEPT !.pc = "classify", !.todo = DOMAIN s.files]

\* One turn of the reading loop for the ready handle fh (part_004
\* 609-640); bytes is what the handle's process has written, child
\* the exit status of the two processes.  When the last handle is
\* removed both are closed (part_004 642-643).
sync_read(s, fh, bytes, child) ==
  LET in   == readline(bytes, s.pos[fh])
      rec  == parse_record(chomp(in))
      old  == IF rec.path \in DOMAIN s.files THEN s.files[rec.path] ELSE NoTimes
      m    == atou32(rec.mtime, U32Zero)
      c    == atou32(rec.ctime, U32Zero)
      v    == IF fh = "src"
                THEN [old EXCEPT !.src_mtime = m, !.src_ctime = c]
                ELSE [old EXCEPT !.dst_mtime = m, !.dst_ctime = c]
      gone == [s EXCEPT !.open = @ \ {fh}]
  IN  IF in = <<>>
        THEN (IF gone.open # {} THEN gone
              ELSE IF child.src # 0 THEN sync_exit(gone, 5)
              ELSE IF child.dst # 0 THEN sync_exit(gone, 6)
              ELSE sync_enter_classify(gone))
      ELSE IF ~rec.ok THEN sync_exit([s EXCEPT !.pos[fh] = @ + Len(in)], 7)
      ELSE [s EXCEPT !.pos[fh] = @ + Len(in),
                     !.files = (rec.path :> v) @@ s.files,
                     !.parsed = Append(@, [fh |-> fh, mtime |-> m,
                                           ctime |-> c, path |-> rec.path])]

\* one turn of the loop over %files (part_004 651-676) for the key the
\* iterator delivers
sync_classify(s, path) ==
  LET v    == s.files[path]
      s1   == [s EXCEPT !.todo = @ \ {path}]
      s2   == IF v.src_mtime = U32Zero
                THEN [s1 EXCEPT !.deleted = @ \cup {path}]
              ELSE IF v.dst_mtime = U32Zero THEN s1
              ELSE IF U32Gt(v.src_mtime, v.dst_mtime) THEN s1
              ELSE IF U32Gt(v.src_ctime, v.dst_ctime) THEN s1
              ELSE [s1 EXCEPT !.files = hash_delete(@, {path})]
  IN  IF s2.todo = {} THEN sync_leave_classify(s2) ELSE s2

\* $parent =~ s:/[^/]+$:: ; [ok, parent]
RECURSIVE last_slash(_, _)
last_slash(p, k) ==
  IF k = 0 THEN 0 ELSE IF p[k] = SLASH THEN k ELSE last_slash(p, k - 1)

strip_last(p) ==
  LET k == last_slash(p, Len(p))
  IN  IF k = 0 \/ k = Len(p) THEN [ok |-> FALSE, parent |-> p]
      ELSE [ok |-> TRUE, parent |-> SubSeq(p, 1, k - 1)]

\* the inner loop of part_004 685-691: some parent of path is deleted
RECURSIVE parent_deleted(_, _)
parent_deleted(path, deleted) ==
  LET r == strip_last(path)
  IN  IF ~r.ok THEN FALSE
      ELSE IF r.parent \in deleted THEN TRUE
      ELSE parent_deleted(r.parent, deleted)

\* one turn of the loop over %deleted (part_004 683-692)
sync_prune(s, path) ==
  LET s1 == [s EXCEPT !.todo = @ \ {path}]
      s2 == IF parent_deleted(path, s.deleted)
              THEN [s1 EXCEPT !.files = hash_delete(@, {path})] ELSE s1
  IN  IF s2.todo = {} THEN sync_rsync(s2) ELSE s2

\* e2sync when its two e2find processes have been started
sync_start ==
  [pc |-> "read", status |-> -1, open |-> {"src", "dst"},
   pos |-> [src |-> 0, dst |-> 0], files |-> <<>>, deleted |-> {},
   todo |-> {}, list |-> {}, parsed |-> <<>>]

\* no e2sync reads the output
sync_off == [sync_start EXCEPT !.pc = "off"]

(* ------------------------------------------------------------------ *)
(* State                                                               *)
(* ------------------------------------------------------------------ *)
\* printf("%s%s%c", prefix, path, newline): the bytes of a record, and
\* of a whole output
RecordBytes(rec) == rec.prefix \o rec.path \o <<rec.term>>

RECURSIVE OutputBytes(_)
OutputBytes(out) ==
  IF out = <<>> THEN <<>> ELSE RecordBytes(Head(out)) \o OutputBytes(Tail(out))

\* one step of main() when no library call fails
step(m, v) ==
  CASE m.pc = "pass1" -> pass1_iter(m, v, 0, TRUE)
    [] m.pc = "pass2" /\ m.entry = 0 -> pass2_head(m, v, 0)
    [] m.pc = "pass2" /\ m.entry > 0 ->
         pass2_cb(m, v, [ino |-> 0, dirent |-> 0], TRUE)
    [] m.pc = "fixup" -> fixup_iter(m)
    [] m.pc = "emit" -> emit_iter(m)
    [] OTHER -> m

\* the whole run, up to exit
RECURSIVE run(_, _)
run(m, v) == IF m.pc = "exit" THEN m ELSE run(step(m, v), v)

VARIABLES
  vol,            \* the volume being scanned
  env,            \* the platform: heap behind the bitfields, PATH_MAX
  opt,            \* the options of the run
  newline, path_max,
  pc, status, fs_open,
  iisdir, iselect,
  inodes, dirents, inodes_eltype, inodes_elsize,
  scan, index, anyp, entry,
  stdout, stderr,
  dst,            \* the e2find run on the destination: [vol, status, stdout]
  sync,           \* e2sync
  call            \* one function called by itself: [fn, in, out]

vars == <<vol, env, opt, newline, path_max, pc, status, fs_open, iisdir,
          iselect, inodes, dirents, inodes_eltype, inodes_elsize, scan,
          index, anyp, entry, stdout, stderr, dst, sync, call>>

e2find_vars == <<vol, env, opt, newline, path_max, pc, status, fs_open,
                 iisdir, iselect, inodes, dirents, inodes_eltype,
                 inodes_elsize, scan, index, anyp, entry, stdout, stderr>>

Machine ==
  [opt |-> opt, newline |-> newline, path_max |-> path_max, pc |-> pc,
   status |-> status, fs_open |-> fs_open,
   iisdir |-> iisdir, iselect |-> iselect, inodes |-> inodes,
   dirents |-> dirents, inodes_eltype |-> inodes_eltype,
   inodes_elsize |-> inodes_elsize, scan |-> scan, index |-> index,
   anyp |-> anyp, entry |-> entry, stdout |-> stdout, stderr |-> stderr]

Becomes(m) ==
  /\ opt' = m.opt
  /\ newline' = m.newline
  /\ path_max' = m.path_max
  /\ pc' = m.pc
  /\ status' = m.status
  /\ fs_open' = m.fs_open
  /\ iisdir' = m.iisdir
  /\ iselect' = m.iselect
  /\ inodes' = m.inodes
  /\ dirents' = m.dirents
  /\ inodes_eltype' = m.inodes_eltype
  /\ inodes_elsize' = m.inodes_elsize
  /\ scan' = m.scan
  /\ index' = m.index
  /\ anyp' = m.anyp
  /\ entry' = m.entry
  /\ stdout' = m.stdout
  /\ stderr' = m.stderr
  /\ vol' = vol
  /\ env' = env
  /\ dst' = dst
  /\ sync' = sync
  /\ call' = call

\* no function is called by itself
no_call == [fn |-> "none", in |-> <<>>, out |-> <<>>]

\* what an inode_t read outside the records may hold
HeapJunk == {[ino |-> 0, dirent |-> 0]}

\* what may lie behind a bitfield of the volume: the bit of the last
\* inode falls behind the allocation when the count is a multiple of 8
\* (only the bit of an inode in use is ever touched); the byte holds
\* anything, or is not mapped
PastBytes(v) ==
  IF v.inodes_count % 8 = 0 /\ v.inode[v.inodes_count].links_count > 0
    THEN [bits : SUBSET {v.inodes_count}, mapped : {TRUE}]
           \cup {[bits |-> {}, mapped |-> FALSE]}
    ELSE {[bits |-> {}, mapped |-> TRUE]}

Platforms(v, path_maxes) ==
  [iisdir : PastBytes(v), iselect : PastBytes(v), path_max : path_maxes]

Options(afters, mtimes, ctimes, uniques, print0s) ==
  [after : afters, show_mtime : mtimes, show_ctime : ctimes,
   unique : uniques, print0 : print0s]

\* e2find is in state m
Is(m) ==
  /\ opt = m.opt
  /\ newline = m.newline
  /\ path_max = m.path_max
  /\ pc = m.pc
  /\ status = m.status
  /\ fs_open = m.fs_open
  /\ iisdir = m.iisdir
  /\ iselect = m.iselect
  /\ inodes = m.inodes
  /\ dirents = m.dirents
  /\ inodes_eltype = m.inodes_eltype
  /\ inodes_elsize = m.inodes_elsize
  /\ scan = m.scan
  /\ index = m.index
  /\ anyp = m.anyp
  /\ entry = m.entry
  /\ stdout = m.stdout
  /\ stderr = m.stderr

\* a run on one of the volumes vs with one of the options os
InitRun(vs, os, path_maxes) ==
  /\ vol \in vs
  /\ env \in Platforms(vol, path_maxes)
  /\ \E o \in os : Is(Start(vol, o, env))

(* ------------------------------------------------------------------ *)
(* Actions                                                             *)
(* ------------------------------------------------------------------ *)
Pass1Iter ==
  /\ pc = "pass1"
  /\ Becomes(pass1_iter(Machine, vol, 0, TRUE))

Pass2Head ==
  /\ pc = "pass2"
  /\ entry = 0
  /\ Becomes(pass2_head(Machine, vol, 0))

DirentCb ==
  /\ pc = "pass2"
  /\ entry > 0
  /\ \E junk \in HeapJunk : Becomes(pass2_cb(Machine, vol, junk, TRUE))

FixupIter ==
  /\ pc = "fixup"
  /\ Becomes(fixup_iter(Machine))

EmitIter ==
  /\ pc = "emit"
  /\ Becomes(emit_iter(Machine))

Next ==
  \/ Pass1Iter
  \/ Pass2Head
  \/ DirentCb
  \/ FixupIter
  \/ EmitIter

\* default output columns; every volume layout; with and without -u
MainVolumes == {MakeVolume(l, AllOld) : l \in Layouts}
MainOptions == Options({U32Zero}, {FALSE}, {FALSE}, BOOLEAN, {FALSE})

\* no destination, and nothing reads the output
NoDst == [vol |-> <<>>, status |-> -1, stdout |-> <<>>]

Init ==
  /\ InitRun(MainVolumes, MainOptions, {PathMax})
  /\ dst = NoDst
  /\ sync = sync_off
  /\ call = no_call

Spec == Init /\ [][Next]_vars

(* ------------------------------------------------------------------ *)
(* A deep tree: the runs of Spec, and the runs on a volume that is one *)
(* chain of directories /a/a/a/..., deeper than the 255 components of  *)
(* dirent_to_path, with a path buffer that holds 255 of them.          *)
(* ------------------------------------------------------------------ *)
DeepPathMax == 512
\* the directories of the chain
DeepDepth == 256

DeepLast == EXT2_GOOD_OLD_FIRST_INO + DeepDepth - 1
DeepDirs == EXT2_GOOD_OLD_FIRST_INO .. DeepLast

\* directory 11 is in the root, directory k + 1 in directory k
DeepVolume ==
  LET count == 8 * (DeepLast \div 8 + 1)
      up(d) == IF d = EXT2_GOOD_OLD_FIRST_INO THEN EXT2_ROOT_INO ELSE d - 1
      down(d) == IF d = EXT2_ROOT_INO THEN EXT2_GOOD_OLD_FIRST_INO ELSE d + 1
  IN  [inodes_count |-> count,
       inode |->
         [ino \in 1 .. count |->
            IF ino \in {EXT2_ROOT_INO} \cup DeepDirs
              THEN [dir |-> TRUE,
                    links_count |-> IF ino = DeepLast THEN 2 ELSE 3,
                    mtime |-> OldTime, ctime |-> OldTime]
              ELSE [dir |-> FALSE,
                    links_count |-> IF ino \in {7, 8} THEN 1 ELSE 0,
                    mtime |-> U32Zero, ctime |-> U32Zero]],
       dir |->
         [d \in {EXT2_ROOT_INO} \cup DeepDirs |->
            <<[inode |-> d, name |-> <<DOT>>],
              [inode |-> IF d = EXT2_ROOT_INO THEN d ELSE up(d),
               name |-> <<DOT, DOT>>]>>
            \o IF d = DeepLast THEN <<>>
               ELSE <<[inode |-> down(d), name |-> FirstName(11)]>>]]

DeepOptions == Options({U32Zero}, {FALSE}, {FALSE}, {FALSE}, {FALSE})

InitDeep ==
  /\ \/ InitRun(MainVolumes, MainOptions, {PathMax})
     \/ InitRun({DeepVolume}, DeepOptions, {DeepPathMax})
  /\ dst = NoDst
  /\ sync = sync_off
  /\ call = no_call

SpecDeep == InitDeep /\ [][Next]_vars

(* ------------------------------------------------------------------ *)
(* The output columns: e2find with every combination of -m, -c and -0  *)
(* on volumes whose timestamps lie at the edges of the 32-bit range,   *)
(* read by e2sync when the options are those e2sync passes.            *)
(* ------------------------------------------------------------------ *)
\* <<mtime, ctime>>: 1700000000 and 1600000000; 0 and 2^31 - 1; 2^31
\* and 1; 2^32 - 1 and 2^31; 999999999 and 1000000000
TimePairs ==
  << <<U32(25939, 61696), U32(24414, 4096)>>,
     <<U32Zero, U32(32767, 65535)>>,
     <<U32(32768, 0), U32(0, 1)>>,
     <<U32(65535, 65535), U32(32768, 0)>>,
     <<U32(15258, 51711), U32(15258, 51712)>> >>

\* inode ino carries pair number ino + p
RotatedTimes(p) ==
  [ino \in 1 .. InodesCount |->
     LET t == TimePairs[((ino + p) % Len(TimePairs)) + 1]
     IN  [mtime |-> t[1], ctime |-> t[2]]]

FmtLayouts == {l \in Layouts : LayoutUsed(l) \subseteq {11, 12}}

FmtVolumes ==
  UNION {{MakeVolume(l, RotatedTimes(p)) : p \in 1 .. Len(TimePairs)} :
           l \in FmtLayouts}

FmtOptions == Options({U32Zero}, BOOLEAN, BOOLEAN, {FALSE}, BOOLEAN)

\* the options of get_cmd_e2find (part_004 566-574)
SyncOptions == Options({U32Zero}, {TRUE}, {TRUE}, {FALSE}, {TRUE})

\* the bytes written so far to the pipe of a handle, and the status of
\* its process once ended (-1: still running)
Pipe(fh) ==
  IF fh = "src" THEN OutputBytes(stdout) ELSE OutputBytes(dst.stdout)

ChildStatus == [src |-> status, dst |-> dst.status]

\* e2sync reads a record from a handle that is ready: a whole record
\* is in its pipe, or its process has ended
SyncRead ==
  /\ sync.pc = "read"
  /\ \E fh \in sync.open :
       /\ \/ ChildStatus[fh] # -1
          \/ NUL \in Range(Drop(Pipe(fh), sync.pos[fh]))
       /\ sync' = sync_read(sync, fh, Pipe(fh), ChildStatus)
  /\ UNCHANGED <<e2find_vars, dst, call>>

NextFmt ==
  \/ Pass1Iter
  \/ Pass2Head
  \/ DirentCb
  \/ FixupIter
  \/ EmitIter
  \/ SyncRead

InitFmt ==
  /\ InitRun(FmtVolumes, FmtOptions, {PathMax})
  /\ dst = NoDst
  /\ sync = IF opt \in SyncOptions THEN sync_start ELSE sync_off
  /\ call = no_call

SpecFmt == InitFmt /\ [][NextFmt]_vars

(* ------------------------------------------------------------------ *)
(* --after: e2find with and without -a NewTime on volumes where one    *)
(* inode alone is new (by its mtime or by its ctime), or one alone is  *)
(* old.                                                                *)
(* ------------------------------------------------------------------ *)
AllNew == [ino \in 1 .. InodesCount |-> [mtime |-> NewTime, ctime |-> NewTime]]

AfterTimes ==
  {AllOld}
  \cup {[AllOld EXCEPT ![q].mtime = NewTime] : q \in 1 .. InodesCount}
  \cup {[AllOld EXCEPT ![q].ctime = NewTime] : q \in 1 .. InodesCount}
  \cup {[AllNew EXCEPT ![q] = AllOld[q]] : q \in 1 .. InodesCount}

AfterLayouts ==
  {l \in Layouts : l.extra = {} /\ LayoutUsed(l) \subseteq {11, 12, InodesCount}}

AfterVolumes ==
  UNION {{MakeVolume(l, t) : t \in AfterTimes} : l \in AfterLayouts}

AfterOptions == Options({U32Zero, NewTime}, {FALSE}, {FALSE}, {FALSE}, {FALSE})

InitAfter ==
  /\ InitRun(AfterVolumes, AfterOptions, {PathMax})
  /\ dst = NoDst
  /\ sync = sync_off
  /\ call = no_call

SpecAfter == InitAfter /\ [][Next]_vars

(* ------------------------------------------------------------------ *)
(* e2sync src dst: the two e2find processes have listed the source     *)
(* and the destination; e2sync reads the two listings in any order,    *)
(* classifies the paths and prunes the deletions.  The source is all   *)
(* of one time; in the destination one inode at most differs, by an    *)
(* older or a later mtime or ctime.                                    *)
(* ------------------------------------------------------------------ *)
\* 131073
LaterTime == U32(2, 1)

SyncInos == {EXT2_ROOT_INO, 11, 12}

SyncLayouts ==
  {l \in Layouts : l.extra = {} /\ LayoutUsed(l) \subseteq SyncInos}

DstTimes ==
  {AllNew}
  \cup {[AllNew EXCEPT ![q].mtime = x] : q \in SyncInos, x \in {OldTime, LaterTime}}
  \cup {[AllNew EXCEPT ![q].ctime = x] : q \in SyncInos, x \in {OldTime, LaterTime}}

SrcVolumes == {MakeVolume(l, AllNew) : l \in SyncLayouts}
DstVolumes == UNION {{MakeVolume(l, t) : t \in DstTimes} : l \in SyncLayouts}

\* one turn of the loop over %files
SyncClassify ==
  /\ sync.pc = "classify"
  /\ \E path \in sync.todo : sync' = sync_classify(sync, path)
  /\ UNCHANGED <<e2find_vars, dst, call>>

\* one turn of the loop over %deleted
SyncPrune ==
  /\ sync.pc = "prune"
  /\ \E path \in sync.todo : sync' = sync_prune(sync, path)
  /\ UNCHANGED <<e2find_vars, dst, call>>

NextSync ==
  \/ SyncRead
  \/ SyncClassify
  \/ SyncPrune

InitSync ==
  /\ vol \in SrcVolumes
  /\ env \in Platforms(vol, {PathMax})
  /\ \E o \in SyncOptions :
       /\ Is(run(Start(vol, o, env), vol))
       /\ \E d \in DstVolumes : \E e \in Platforms(d, {PathMax}) :
            LET m == run(Start(d, o, e), d)
            IN  dst = [vol |-> d, status |-> m.status, stdout |-> m.stdout]
  /\ sync = sync_start
  /\ call = no_call

SpecSync == InitSync /\ [][NextSync]_vars

(* ------------------------------------------------------------------ *)
(* Volumes with a directory that no entry names (the entry of the      *)
(* directory is lost, its inode and its own entries are still there),  *)
(* beside the volumes of Spec that leave the last inode free.          *)
(* ------------------------------------------------------------------ *)
IsDotName(name) == name \in {<<DOT>>, <<DOT, DOT>>}

\* the directories of v, the root left out, that have entries of their own
ParentDirs(v) ==
  {d \in DOMAIN v.dir \ {EXT2_ROOT_INO} :
     \E k \in DOMAIN v.dir[d] : ~IsDotName(v.dir[d][k].name)}

\* v without the entry that names directory q
Detach(v, q) ==
  LET Kept(e) == e.inode # q \/ IsDotName(e.name)
  IN  [v EXCEPT !.dir = [d \in DOMAIN v.dir |-> SelectSeq(v.dir[d], Kept)]]

LastInodeFreeVolumes ==
  {v \in MainVolumes : v.inode[v.inodes_count].links_count = 0}

OrphanVolumes ==
  UNION {{Detach(v, q) : q \in ParentDirs(v)} : v \in LastInodeFreeVolumes}

InitOrphan ==
  /\ InitRun(LastInodeFreeVolumes \cup OrphanVolumes, DeepOptions, {PathMax})
  /\ dst = NoDst
  /\ sync = sync_off
  /\ call = no_call

SpecOrphan == InitOrphan /\ [][Next]_vars

(* ------------------------------------------------------------------ *)
(* Functions called by themselves.  e2find itself does not run: its    *)
(* variables keep the state of a run just started on the volume that   *)
(* holds the root alone.                                               *)
(* ------------------------------------------------------------------ *)
IdleVolume ==
  CHOOSE v \in MainVolumes : VolumeUsed(v) = {EXT2_ROOT_INO}

Idle ==
  /\ InitRun({IdleVolume}, DeepOptions, {PathMax})
  /\ dst = NoDst
  /\ sync = sync_off

Called == call.out # <<>>

\* the function returns out
Returns(out) ==
  /\ call' = [call EXCEPT !.out = <<out>>]
  /\ UNCHANGED <<e2find_vars, dst, sync>>

(* ------------------------------------------------------------------ *)
(* inode_lookup and dirent_cb on an InodeTable of n records            *)
(*   2, 2 + gap, 2 + 2 gap, ...                                        *)
(* for every inode number from 1 to past the last record.              *)
(* ------------------------------------------------------------------ *)
\* the records of the largest table
MaxTable == 18
TableGaps == {1, 3}

\* inodes_elsize with neither -m nor -c
LookupElsize == elsize_of(CHOOSE o \in DeepOptions : TRUE)

RECURSIVE LookupTable(_, _)
LookupTable(n, gap) ==
  IF n = 0 THEN array_init
  ELSE array_add(LookupTable(n - 1, gap),
                 inode_record(INODES_NONE, 2 + gap * (n - 1), <<>>),
                 LookupElsize, TRUE).a

\* what the heap holds around the records: an ino below, equal to or
\* above the one looked up
LookupJunk(ino) == {[ino |-> j, dirent |-> 0] : j \in {0, ino, ino + 1}}

InodeLookup ==
  /\ call.fn = "inode_lookup"
  /\ ~Called
  /\ \E junk \in LookupJunk(call.in.ino) :
       Returns(inode_lookup(call.in.inodes, LookupElsize, call.in.ino, junk))

\* dirent_cb for an entry "a" of the directory of record 0 naming the inode
DirentCbCall ==
  /\ call.fn = "dirent_cb"
  /\ ~Called
  /\ \E junk \in LookupJunk(call.in.ino) :
       Returns(dirent_cb([inode |-> call.in.ino, name |-> FirstName(11)],
                         [parent_ino |-> EXT2_ROOT_INO, parent_ino_idx |-> 0],
                         call.in.inodes, LookupElsize, array_init, junk,
                         TRUE))

NextLookup ==
  \/ InodeLookup
  \/ DirentCbCall

InitLookup ==
  /\ Idle
  /\ \E n \in 0 .. MaxTable : \E gap \in TableGaps :
       \E ino \in 1 .. 3 + gap * n : \E fn \in {"inode_lookup", "dirent_cb"} :
         call = [fn |-> fn,
                 in |-> [inodes |-> LookupTable(n, gap), ino |-> ino],
                 out |-> <<>>]

SpecLookup == InitLookup /\ [][NextLookup]_vars

(* ------------------------------------------------------------------ *)
(* dirent_to_path on a DirentStore that holds the root and a chain of  *)
(* n dirents below it, each name of len bytes, called for the last     *)
(* dirent of the chain with a buffer of path_max bytes.  kind:         *)
(*   "tree"    the root's parent is the root, dirent 1's the root      *)
(*   "rootout" as tree, but the root's parent is dirent 1              *)
(*   "cycle"   dirent 1's parent is dirent n: no way to the root       *)
(* ------------------------------------------------------------------ *)
\* the short chains, and the sizes of the small buffers
MaxChain == 4
MaxBuf == 12

ChainDepths ==
  (0 .. MaxChain) \cup (MAX_COMPONENTS - 1 .. MAX_COMPONENTS + 1)
ChainNameLens == {1, 3}
ChainBufs == (1 .. MaxBuf) \cup {DeepPathMax}
ChainKinds == {"tree", "rootout", "cycle"}

ChainName(len) == [k \in 1 .. len |-> "a"]

\* the offset of dirent k of the chain; dirent 0 is the root
ChainOffset(k, len) ==
  IF k = 0 THEN 0
  ELSE dirent_stride(<<NUL>>) + (k - 1) * dirent_stride(ChainName(len))

ChainStore(n, len, kind) ==
  [count |-> n + 1,
   bytes_used |-> ChainOffset(n + 1, len),
   bytes_alloc |-> ARRAY_MIN_BYTES,
   buffer |->
     [o \in {ChainOffset(k, len) : k \in 0 .. n} |->
        LET k == IF o = 0 THEN 0
                 ELSE 1 + (o - ChainOffset(1, len))
                            \div dirent_stride(ChainName(len))
        IN  IF k = 0
              THEN [ino |-> 0,
                    parent |-> IF kind = "rootout" /\ n >= 1
                                 THEN ChainOffset(1, len) ELSE 0,
                    name |-> dirent_name(<<>>, 0)]
              ELSE [ino |-> k,
                    parent |-> IF kind = "cycle" /\ k = 1
                                 THEN ChainOffset(n, len)
                                 ELSE ChainOffset(k - 1, len),
                    name |-> dirent_name(ChainName(len), len)]]]

DirentToPath ==
  /\ call.fn = "dirent_to_path"
  /\ ~Called
  /\ LET store == ChainStore(call.in.n, call.in.len, call.in.kind)
     IN  Returns(dirent_to_path(
                   store,
                   store.buffer[ChainOffset(call.in.n, call.in.len)],
                   path_buffer(call.in.path_max), call.in.path_max))

NextPath == DirentToPath

InitPath ==
  /\ Idle
  /\ \E n \in ChainDepths : \E len \in ChainNameLens :
       \E pm \in ChainBufs : \E kind \in ChainKinds :
         /\ kind = "cycle" => n >= 1
         /\ call = [fn |-> "dirent_to_path",
                    in |-> [n |-> n, len |-> len, path_max |-> pm,
                            kind |-> kind],
                    out |-> <<>>]

SpecPath == InitPath /\ [][NextPath]_vars

(* ------------------------------------------------------------------ *)
(* Runs in which realloc() may refuse to grow an array.  An array      *)
(* grows when 64 KiB are full, so the runs start in the middle: in     *)
(* pass 1 when the InodeTable is about to be full, in pass 2 when the  *)
(* DirentStore is.  The volume holds the root and n files in it, the   *)
(* inodes 11 .. 10 + n; file k has a name of lens[k] bytes.            *)
(* ------------------------------------------------------------------ *)
\* the inodes the scan delivers after the one that finds the table full
AllocSpare == 3

LongName(ino, len) ==
  LET ds == DecDigits(ino)
  IN  [j \in 1 .. len |-> IF j <= Len(ds) THEN ds[j] ELSE "a"]

FileVolume(n, lens) ==
  LET count == 8 * ((EXT2_GOOD_OLD_FIRST_INO + n) \div 8 + 1)
      files == EXT2_GOOD_OLD_FIRST_INO .. EXT2_GOOD_OLD_FIRST_INO + n - 1
  IN  [inodes_count |-> count,
       inode |->
         [ino \in 1 .. count |->
            IF ino = EXT2_ROOT_INO
              THEN [dir |-> TRUE, links_count |-> 2,
                    mtime |-> OldTime, ctime |-> OldTime]
            ELSE IF ino \in files
              THEN [dir |-> FALSE, links_count |-> 1,
                    mtime |-> OldTime, ctime |-> OldTime]
            ELSE [dir |-> FALSE,
                  links_count |-> IF ino \in {7, 8} THEN 1 ELSE 0,
                  mtime |-> U32Zero, ctime |-> U32Zero]],
       dir |->
         [d \in {EXT2_ROOT_INO} |->
            <<[inode |-> d, name |-> <<DOT>>],
              [inode |-> d, name |-> <<DOT, DOT>>]>>
            \o [k \in 1 .. n |->
                  [inode |-> EXT2_GOOD_OLD_FIRST_INO + k - 1,
                   name |-> LongName(EXT2_GOOD_OLD_FIRST_INO + k - 1,
                                     lens[k])]]]]

\* the inode of record k of the InodeTable of a FileVolume
FileInoAt(k) == IF k = 0 THEN EXT2_ROOT_INO ELSE EXT2_GOOD_OLD_FIRST_INO + k - 1

\* the bytes of a dirent with a name of len bytes, and the offset of
\* the dirent of file k, when the files before it have
\* names of len bytes; dirent 0 is the root's
FileStride(len) == SIZEOF_DIRENT_EMPTY_T + ((len + 4) \div 4) * 4
FileDirentAt(k, len) ==
  IF k = 0 THEN 0 ELSE FileStride(0) + (k - 1) * FileStride(len)

\* the run on a FileVolume v when the scan of pass 1 has delivered the
\* inodes below s and the InodeTable has not grown
MidPass1(v, o, e, s) ==
  LET c == IF s <= EXT2_ROOT_INO THEN 0
           ELSE IF s <= EXT2_GOOD_OLD_FIRST_INO THEN 1
           ELSE 1 + Min(s - EXT2_GOOD_OLD_FIRST_INO,
                        Len(v.dir[EXT2_ROOT_INO]) - 2)
      m == Start(v, o, e)
  IN  [m EXCEPT
         !.scan = s,
         !.iisdir = IF c >= 1 THEN bitfield_set(@, EXT2_ROOT_INO) ELSE @,
         !.inodes =
            [count |-> c,
             bytes_used |-> c * m.inodes_elsize,
             bytes_alloc |-> ARRAY_MIN_BYTES,
             buffer |->
               [off \in {m.inodes_elsize * k : k \in 0 .. c - 1} |->
                  inode_record(m.inodes_eltype,
                               FileInoAt(off \div m.inodes_elsize),
                               v.inode[FileInoAt(off \div m.inodes_elsize)])]]]

\* the run on a FileVolume v when pass 2 has called dirent_cb for ".",
\* ".." and the first t files of the root, whose names have len bytes,
\* and the DirentStore has not grown
MidPass2(v, o, e, t, len) ==
  LET m == MidPass1(v, o, e, v.inodes_count + 1)
  IN  [m EXCEPT
         !.pc = "pass2",
         !.entry = t + 3,
         !.inodes.buffer =
            [off \in DOMAIN @ |->
               IF off \div m.inodes_elsize <= t
                 THEN [@[off] EXCEPT
                         !.dirent = FileDirentAt(off \div m.inodes_elsize, len)]
                 ELSE @[off]],
         !.dirents =
            [count |-> t + 1,
             bytes_used |-> FileDirentAt(t + 1, len),
             bytes_alloc |-> ARRAY_MIN_BYTES,
             buffer |->
               [off \in {FileDirentAt(k, len) : k \in 0 .. t} |->
                  LET k == IF off = 0 THEN 0
                           ELSE 1 + (off - FileStride(0)) \div FileStride(len)
                  IN  [ino |-> k, parent |-> 0,
                       name |-> IF k = 0 THEN dirent_name(<<>>, 0)
                                ELSE dirent_name(LongName(FileInoAt(k), len),
                                                 len)]]]]

AllocOptions == Options({U32Zero}, BOOLEAN, BOOLEAN, {FALSE}, {FALSE})

\* the records that fill the first allocation of the InodeTable
TableFill(o) == ARRAY_MIN_BYTES \div elsize_of(o)

\* the longest name of ext2, and the files with such a name whose
\* dirents, with the root's, fill the first allocation of DirentStore
EXT2_NAME_LEN == 255
DirFill == (ARRAY_MIN_BYTES - FileDirentAt(1, EXT2_NAME_LEN))
             \div FileStride(EXT2_NAME_LEN)

\* the longest name whose dirent fits behind them
FitLen ==
  LET free == ARRAY_MIN_BYTES - FileDirentAt(DirFill + 1, EXT2_NAME_LEN)
      fit  == {l \in 1 .. EXT2_NAME_LEN : FileStride(l) <= free}
  IN  CHOOSE l \in fit : \A k \in fit : k <= l

\* one turn of pass 1, realloc() refusing or not
Pass1IterAlloc ==
  /\ pc = "pass1"
  /\ \E realloc_ok \in BOOLEAN :
       Becomes(pass1_iter(Machine, vol, 0, realloc_ok))

\* one call of dirent_cb, realloc() refusing or not
DirentCbAlloc ==
  /\ pc = "pass2"
  /\ entry > 0
  /\ \E junk \in HeapJunk : \E realloc_ok \in BOOLEAN :
       Becomes(pass2_cb(Machine, vol, junk, realloc_ok))

NextAlloc ==
  \/ Pass1IterAlloc
  \/ DirentCbAlloc

InitAlloc ==
  /\ \/ \E o \in AllocOptions : \E back \in 0 .. AllocSpare :
          /\ vol = FileVolume(TableFill(o) - 1 + AllocSpare,
                              [k \in 1 .. TableFill(o) - 1 + AllocSpare |-> 4])
          /\ env \in Platforms(vol, {PathMax})
          /\ Is(MidPass1(vol, o, env,
                         EXT2_GOOD_OLD_FIRST_INO + TableFill(o) - 1 - back))
     \/ \E o \in DeepOptions : \E back \in 0 .. 1 :
          \E l1 \in {FitLen - 4, FitLen, FitLen + 1} :
            \E l2 \in {1, EXT2_NAME_LEN} :
              /\ vol = FileVolume(DirFill + 2,
                                  [k \in 1 .. DirFill + 2 |->
                                     IF k <= DirFill THEN EXT2_NAME_LEN
                                     ELSE IF k = DirFill + 1 THEN l1 ELSE l2])
              /\ env \in Platforms(vol, {PathMax})
              /\ Is(MidPass2(vol, o, env, DirFill - back, EXT2_NAME_LEN))
  /\ dst = NoDst
  /\ sync = sync_off
  /\ call = no_call

SpecAlloc == InitAlloc /\ [][NextAlloc]_vars

(* ------------------------------------------------------------------ *)
(* array_add called again and again on one array, realloc() never      *)
(* refusing.  The calls start when the array holds elements of  256    *)
(* bytes up to two elements below one of the sizes an allocation can   *)
(* have; MaxCalls calls take it past that size.                        *)
(* ------------------------------------------------------------------ *)
\* the allocations of up to this many MiB are met
MaxMiB == 3
\* the calls of a run
MaxCalls == 4

\* sizeof(struct dirent_t), the largest element; the elements that fill
\* the array before the calls
SIZEOF_DIRENT_T == 266
FillBytes == 256
AddSizes == {1, FillBytes, SIZEOF_DIRENT_T}

\* the allocation after appends of FillBytes bytes up to used bytes:
\* every growth of array_add from the first allocation on
RECURSIVE grown(_, _)
grown(alloc, used) ==
  IF used <= alloc THEN alloc
  ELSE grown(alloc + (IF alloc >= ARRAY_INC_MAX_BYTES
                        THEN ARRAY_INC_MAX_BYTES ELSE alloc), used)

\* the array after n appends of FillBytes bytes
Filled(n) ==
  [count |-> n, bytes_used |-> n * FillBytes,
   bytes_alloc |-> grown(ARRAY_MIN_BYTES, n * FillBytes),
   buffer |-> [off \in {FillBytes * k : k \in 0 .. n - 1} |-> FillBytes]]

\* the sizes an allocation takes, up to MaxMiB MiB
RECURSIVE AllocSizes(_)
AllocSizes(alloc) ==
  IF alloc >= MaxMiB * ARRAY_INC_MAX_BYTES THEN {alloc}
  ELSE {alloc} \cup AllocSizes(grown(alloc, alloc + 1))

ArrayAdd ==
  /\ call.fn = "array_add"
  /\ call.in.a.count < call.in.size \div FillBytes - 2 + MaxCalls
  /\ \E bytes \in AddSizes :
       LET r == array_add(call.in.a, bytes, bytes, TRUE)
       IN  call' = [call EXCEPT !.in.a = r.a, !.out = <<r.ret>>]
  /\ UNCHANGED <<e2find_vars, dst, sync>>

NextGrow == ArrayAdd

InitGrow ==
  /\ Idle
  /\ \E size \in AllocSizes(ARRAY_MIN_BYTES) :
       call = [fn |-> "array_add",
               in |-> [a |-> Filled(size \div FillBytes - 2), size |-> size],
               out |-> <<>>]

SpecGrow == InitGrow /\ [][NextGrow]_vars

(* ------------------------------------------------------------------ *)
(* Pass 1 with an inode iterator that reports errors.  call.in tells   *)
(* how ext2fs_get_next_inode behaves in the run:                       *)
(*   "none"   it delivers every inode and then the end marker          *)
(*   "once"   it returns an error for inode at, and goes on with the   *)
(*            next inode at the following call                         *)
(*   "fatal"  from inode at on it returns the error at every call      *)
(* The warnings of a run are counted up to MaxWarnings.                *)
(* ------------------------------------------------------------------ *)
MaxWarnings == 3
ScanErrorAt == {EXT2_ROOT_INO, EXT2_GOOD_OLD_FIRST_INO, EXT2_GOOD_OLD_FIRST_INO + 2}

\* what ext2fs_get_next_inode returns at the next call
scan_ret ==
  IF call.in.kind # "none" /\ scan = call.in.at THEN 1 ELSE 0

\* A fatal error leaves the scan where it is, and the loop writes its
\* warning and calls again; call.in.calls is the parity of these calls.
Pass1IterScan ==
  /\ pc = "pass1"
  /\ LET m == pass1_iter(Machine, vol, scan_ret, TRUE)
     IN  IF scan_ret # 0 /\ call.in.kind = "fatal"
           THEN /\ stderr' = IF Len(stderr) >= MaxWarnings
                               THEN stderr ELSE m.stderr
                /\ call' = [call EXCEPT !.in.calls = 1 - @]
                /\ UNCHANGED <<vol, env, opt, newline, path_max, pc, status,
                               fs_open, iisdir, iselect, inodes, dirents,
                               inodes_eltype, inodes_elsize, scan, index,
                               anyp, entry, stdout, dst, sync>>
           ELSE Becomes(m)

NextScan == Pass1IterScan

InitScan ==
  /\ InitRun(MainVolumes, DeepOptions, {PathMax})
  /\ dst = NoDst
  /\ sync = sync_off
  /\ \/ call = [fn |-> "ext2fs_get_next_inode",
                in |-> [kind |-> "none", at |-> 0, calls |-> 0],
                out |-> <<>>]
     \/ \E kind \in {"once", "fatal"} : \E at \in ScanErrorAt :
          call = [fn |-> "ext2fs_get_next_inode",
                  in |-> [kind |-> kind, at |-> at, calls |-> 0],
                  out |-> <<>>]

\* the loop of pass 1 is not suspended for ever
SpecScan == InitScan /\ [][NextScan]_vars /\ WF_vars(NextScan)

(* ------------------------------------------------------------------ *)
(* dirent_cb called again and again for the entries of the root, each  *)
(* naming one more inode of the InodeTable 2, 3, 4, ...  The first     *)
(* name has any length from 0 to 255, each following one is a byte     *)
(* longer than the last or as much shorter than the longest name.      *)
(* call.in keeps the DirentStore, the InodeTable, the lengths of the   *)
(* names and the offsets bytes_used had at each call.                  *)
(* ------------------------------------------------------------------ *)
MaxRecords == 3

NameLens == 0 .. EXT2_NAME_LEN

DirentCbAppend ==
  /\ call.fn = "dirent_cb_append"
  /\ Len(call.in.lens) < MaxRecords
  /\ \E len \in IF call.in.lens = <<>> THEN NameLens
                ELSE LET last == call.in.lens[Len(call.in.lens)]
                     IN  {(last + 1) % (EXT2_NAME_LEN + 1),
                          EXT2_NAME_LEN - last} :
       LET ino == EXT2_ROOT_INO + Len(call.in.lens) + 1
           r   == dirent_cb([inode |-> ino, name |-> LongName(ino, len)],
                            [parent_ino |-> EXT2_ROOT_INO,
                             parent_ino_idx |-> 0],
                            call.in.inodes, LookupElsize, call.in.dirents,
                            [ino |-> 0, dirent |-> 0], TRUE)
       IN  call' = [call EXCEPT
                      !.in.inodes = r.inodes,
                      !.in.dirents = r.dirents,
                      !.in.lens = Append(@, len),
                      !.in.offs = Append(@, call.in.dirents.bytes_used),
                      !.out = <<r.ret>>]
  /\ UNCHANGED <<e2find_vars, dst, sync>>

NextName == DirentCbAppend

InitName ==
  /\ Idle
  /\ call = [fn |-> "dirent_cb_append",
             in |-> [dirents |-> array_init,
                     inodes |-> LookupTable(MaxRecords + 2, 1),
                     lens |-> <<>>, offs |-> <<>>],
             out |-> <<>>]

SpecName == InitName /\ [][NextName]_vars

\* The offsets that the loops of the fix-up and of pass 3 visit in a
\* DirentStore (e2find.c 585-597, 602-641): count turns from offset 0,
\* each stepping by the length computed from strlen(d->name).  -1
\* stands for a turn at an offset where no record starts.
RECURSIVE loop_offsets(_, _, _)
loop_offsets(store, at, turn) ==
  IF turn >= store.count THEN <<>>
  ELSE IF at \notin DOMAIN store.buffer THEN <<-1>>
  ELSE <<at>> \o loop_offsets(store,
                                at + dirent_stride(store.buffer[at].name),
                                turn + 1)

(* ------------------------------------------------------------------ *)
(* The run from the start of main() (e2find.c 380-487): the options,   *)
(* the path and the volume are taken and the inode scan is opened,     *)
(* unless one of the steps fails, and then err() or exit() ends the    *)
(* run: 10 unknown option, 11 bad --after value, 1 no path, 3 lstat,   *)
(* 9 not a mountpoint, 4 no device name, 5 ext2fs_open, 6 calloc of a  *)
(* bitfield, 7 ext2fs_open_inode_scan.                                 *)
(* ------------------------------------------------------------------ *)
StartupExits == {10, 11, 1, 3, 9, 4, 5, 6, 7}

\* the state before anything is done: nothing open, nothing written
before_start(m) == [m EXCEPT !.pc = "start", !.fs_open = FALSE]

\* failed: the status of the step that fails, or 0 when none does
startup(m, failed) ==
  IF failed # 0 THEN exit(m, failed)
  ELSE [m EXCEPT !.pc = "pass1", !.fs_open = TRUE]

Startup ==
  /\ pc = "start"
  /\ \E failed \in {0} \cup StartupExits : Becomes(startup(Machine, failed))

NextStart ==
  \/ Startup
  \/ Pass1Iter
  \/ Pass2Head
  \/ DirentCb
  \/ FixupIter
  \/ EmitIter

InitStart ==
  /\ vol \in MainVolumes
  /\ env \in Platforms(vol, {PathMax})
  /\ \E o \in MainOptions : Is(before_start(Start(vol, o, env)))
  /\ dst = NoDst
  /\ sync = sync_off
  /\ call = no_call

SpecStart == InitStart /\ [][NextStart]_vars

(* ------------------------------------------------------------------ *)
(* inode_lookup on the InodeTables of 1 to MaxCostTable records        *)
(* 2, 3, 4, ..., for every inode they hold.                            *)
(* ------------------------------------------------------------------ *)
MaxCostTable == 260

\* the InodeTable after pass 1 has appended the n inodes 2 .. n + 1
CostTable(n) ==
  [count |-> n, bytes_used |-> n * LookupElsize,
   bytes_alloc |-> ARRAY_MIN_BYTES,
   buffer |-> [off \in {LookupElsize * k : k \in 0 .. n - 1} |->
                 inode_record(INODES_NONE,
                              EXT2_ROOT_INO + off \div LookupElsize, <<>>)]]

NextCost == InodeLookup

InitCost ==
  /\ Idle
  /\ \E n \in 1 .. MaxCostTable : \E ino \in EXT2_ROOT_INO .. n + 1 :
       call = [fn |-> "inode_lookup",
               in |-> [inodes |-> CostTable(n), ino |-> ino],
               out |-> <<>>]

SpecCost == InitCost /\ [][NextCost]_vars

(* ------------------------------------------------------------------ *)
(* e2find-alt.c: the alternate program.  imatch holds one imatch_t     *)
(* [ino, parent, mtime, namei, flags] for every directory and every    *)
(* selected inode, inames the names, each at its offset namei.         *)
(* The machine m:                                                      *)
(*   pc      "pass1" | "pass2" | "pass3" | "exit"                      *)
(*   status  the exit status once pc = "exit", else -1                 *)
(*   next    the inode number the inode scan delivers next             *)
(*   i       the loop variable of passes 2 and 3                       *)
(*   out     the records printed: [ino, prefix, path]                  *)
(*   err     the warnings                                              *)
(* ------------------------------------------------------------------ *)
IMATCH_SELECT == 1
IMATCH_DIR == 2
SIZEOF_IMATCH_T == 20
NAME_LEN_MAX == 255

\* a & b, a | b and !a of C on small unsigned values
RECURSIVE BitAnd(_, _)
BitAnd(a, b) ==
  IF a = 0 \/ b = 0 THEN 0
  ELSE (a % 2) * (b % 2) + 2 * BitAnd(a \div 2, b \div 2)

BitOr(a, b) == a + b - BitAnd(a, b)

LogicalNot(a) == IF a = 0 THEN 1 ELSE 0

\* what an imatch_t read outside the records may hold
ImatchJunk(ino) ==
  {[ino |-> j, parent |-> 0, mtime |-> U32Zero, namei |-> 0, flags |-> 0] :
     j \in {0, ino, ino + 1}}

\* imatch_by_ino (e2find-alt.c 186-225): [found, pos, reads, runaway]
RECURSIVE imatch_bisect(_, _, _, _, _, _)
imatch_bisect(a, ino, junk, at, ihalf, reads) ==
  LET i  == inode_at(a, SIZEOF_IMATCH_T, at, junk)
      rd == Append(reads, at)
  IN  IF i.ino = ino
        THEN [found |-> TRUE, pos |-> at, reads |-> rd, runaway |-> FALSE]
      ELSE IF ihalf \div 2 > 0
        THEN imatch_bisect(a, ino, junk,
                           IF i.ino < ino THEN at + ihalf ELSE at - ihalf,
                           ihalf \div 2, rd)
      ELSE IF i.ino < ino
        THEN lookup_up(a, SIZEOF_IMATCH_T, ino, junk, at, rd)
        ELSE lookup_down(a, SIZEOF_IMATCH_T, ino, junk, at, rd)

imatch_by_ino(a, ino, junk) ==
  imatch_bisect(a, ino, junk, a.count \div 2, (a.count \div 2) \div 2, <<>>)

\* the record a lookup has found: one of the records, or heap memory
imatch_found(a, look, junk) ==
  inode_at(a, SIZEOF_IMATCH_T, look.pos, junk)

\* imatch_set_name (e2find-alt.c 229-245): [namei, inames]
imatch_set_name(inames, name, name_len) ==
  LET len == IF name_len < NAME_LEN_MAX THEN name_len ELSE NAME_LEN_MAX
  IN  [namei  |-> inames.bytes_used,
       inames |-> array_add(inames, SubSeq(name, 1, len), len + 1, TRUE).a]

\* dir_cb (e2find-alt.c 247-266); a store through a pointer outside the
\* records leaves the records as they are
dir_cb(dirent, parent, imatch, inames, junk) ==
  LET name_len == Len(dirent.name) % 256
      look     == imatch_by_ino(imatch, dirent.inode, junk)
      inside   == look.pos >= 0 /\ look.pos < imatch.count
      named    == imatch_set_name(inames, dirent.name, name_len)
      same     == [status |-> 0, imatch |-> imatch, inames |-> inames]
  IN  IF dirent.name[1] = DOT
           /\ (name_len = 1 \/ (name_len = 2 /\ dirent.name[2] = DOT))
        THEN same
      ELSE IF look.runaway THEN [same EXCEPT !.status = SEGV_STATUS]
      ELSE IF ~look.found \/ imatch_found(imatch, look, junk).namei # 0
        THEN same
      ELSE [status |-> 0,
            imatch |->
              IF inside
                THEN [imatch EXCEPT
                        !.buffer[SIZEOF_IMATCH_T * look.pos].parent = parent,
                        !.buffer[SIZEOF_IMATCH_T * look.pos].namei =
                            named.namei]
                ELSE imatch,
            inames |-> named.inames]

\* ext2fs_dir_iterate calling dir_cb for the entries from the k-th on
RECURSIVE dir_iterate(_, _, _, _, _, _)
dir_iterate(entries, k, parent, imatch, inames, junk) ==
  IF k > Len(entries)
    THEN [status |-> 0, imatch |-> imatch, inames |-> inames]
    ELSE LET r == dir_cb(entries[k], parent, imatch, inames, junk)
         IN  IF r.status # 0 THEN r
             ELSE dir_iterate(entries, k + 1, parent, r.imatch, r.inames,
                              junk)

\* _inode_to_path_r (e2find-alt.c 268-297): [ret, pos, path], path the
\* bytes from path[pos] to the NUL.  A recursion that does not end
\* overflows the stack (ret -1).
RECURSIVE inode_to_path_r(_, _, _, _, _, _, _)
inode_to_path_r(imatch, inames, junk, ino, pos, path, iter) ==
  LET slash == iter > 0 \/ ino = EXT2_ROOT_INO
      pos1  == IF slash THEN pos - 1 ELSE pos
      path1 == IF slash THEN <<SLASH>> \o path ELSE path
      look  == imatch_by_ino(imatch, ino, junk)
      rec   == imatch_found(imatch, look, junk)
      ipath == CStr(inames.buffer[rec.namei])
  IN  IF slash /\ pos < 1 THEN [ret |-> 1, pos |-> pos, path |-> path]
      ELSE IF ino = EXT2_ROOT_INO
        THEN [ret |-> 0, pos |-> pos1, path |-> path1]
      ELSE IF look.runaway \/ iter > imatch.count
        THEN [ret |-> -1, pos |-> pos1, path |-> path1]
      ELSE IF ~look.found THEN [ret |-> 2, pos |-> pos1, path |-> path1]
      ELSE IF pos1 < Len(ipath) THEN [ret |-> 1, pos |-> pos1, path |-> path1]
      ELSE inode_to_path_r(imatch, inames, junk, rec.parent,
                           pos1 - Len(ipath), ipath \o path1, iter + 1)

\* inode_to_path (e2find-alt.c 302-315)
inode_to_path(imatch, inames, junk, ino, size) ==
  inode_to_path_r(imatch, inames, junk, ino, size - 1, <<>>, 0)

alt_start ==
  [pc |-> "pass1", status |-> -1, next |-> 1, i |-> 0,
   imatch |-> array_init,
   inames |-> array_add(array_init, <<"?">>, 2, TRUE).a,
   out |-> <<>>, err |-> <<>>]

alt_exit(m, code) == [m EXCEPT !.pc = "exit", !.status = code]

\* the head of the loops of passes 2 and 3 (e2find-alt.c 426, 445)
alt_enter(m, phase) ==
  IF m.imatch.count = 0 THEN alt_exit(m, 0)
  ELSE [m EXCEPT !.pc = phase, !.i = 0]

\* Pass 1, one turn of the loop (e2find-alt.c 383-422)
alt_pass1_iter(m, v, after, ret) ==
  LET ino   == IF m.next <= v.inodes_count THEN m.next ELSE 0
      nxt   == [m EXCEPT !.next = IF ino = 0 THEN @ ELSE @ + 1]
      inode == v.inode[ino]
      sel   == after = U32Zero \/ U32Ge(inode.mtime, after)
                 \/ U32Ge(inode.ctime, after)
      rec   == [ino |-> ino, parent |-> 0, namei |-> 0,
                mtime |-> IF U32Gt(inode.mtime, inode.ctime)
                            THEN inode.mtime ELSE inode.ctime,
                flags |-> BitOr(IF sel THEN IMATCH_SELECT ELSE 0,
                                IF inode.dir THEN IMATCH_DIR ELSE 0)]
  IN  IF ret # 0
        THEN [nxt EXCEPT !.err =
                Append(@, [warning |-> "scan error", ino |-> ino, ret |-> ret])]
      ELSE IF ino = 0 THEN alt_enter(m, "pass2")
      ELSE IF (ino < EXT2_GOOD_OLD_FIRST_INO /\ ino # EXT2_ROOT_INO)
                \/ inode.links_count = 0
        THEN nxt
      ELSE IF ~inode.dir /\ ~sel THEN nxt
      ELSE [nxt EXCEPT !.imatch = array_add(@, rec, SIZEOF_IMATCH_T, TRUE).a]

\* Pass 2, one turn of the loop (e2find-alt.c 426-441)
alt_pass2_iter(m, v, junk, ret) ==
  LET rec == m.imatch.buffer[SIZEOF_IMATCH_T * m.i]
      r   == dir_iterate(v.dir[rec.ino], 1, rec.ino, m.imatch, m.inames, junk)
      m1  == IF BitAnd(rec.flags, IMATCH_DIR) # 0
               THEN [m EXCEPT !.imatch = r.imatch, !.inames = r.inames]
               ELSE m
  IN  IF BitAnd(rec.flags, IMATCH_DIR) # 0 /\ r.status # 0
        THEN alt_exit(m1, r.status)
      ELSE IF BitAnd(rec.flags, IMATCH_DIR) # 0 /\ ret # 0
        THEN alt_exit(m1, 7)
      ELSE IF m.i + 1 < m.imatch.count THEN [m1 EXCEPT !.i = @ + 1]
      ELSE alt_enter(m1, "pass3")

\* the test that skips a record in pass 3 (e2find-alt.c 450), where !
\* binds tighter than &
pass3_skips(flags) == BitAnd(LogicalNot(flags), IMATCH_SELECT) # 0

\* Pass 3, one turn of the loop (e2find-alt.c 445-463)
alt_pass3_iter(m, show_mtime, size, junk) ==
  LET rec == m.imatch.buffer[SIZEOF_IMATCH_T * m.i]
      r   == inode_to_path(m.imatch, m.inames, junk, rec.ino, size)
      m1  == IF pass3_skips(rec.flags) THEN m
             ELSE IF r.ret # 0
               THEN [m EXCEPT !.err =
                       Append(@, [warning |-> "lookup error",
                                  ino |-> rec.ino, ret |-> r.ret])]
             ELSE [m EXCEPT !.out =
                     Append(@, [ino    |-> rec.ino,
                                prefix |-> IF show_mtime
                                             THEN fmt_10d(rec.mtime) ELSE <<>>,
                                path   |-> r.path])]
  IN  IF ~pass3_skips(rec.flags) /\ r.ret = -1 THEN alt_exit(m, SEGV_STATUS)
      ELSE IF m.i + 1 < m.imatch.count THEN [m1 EXCEPT !.i = @ + 1]
      ELSE alt_exit(m1, 0)

\* the run of e2find-alt is call.in.m, on call.in.vol
AltRuns == call.fn = "e2find-alt"

AltBecomes(m) ==
  /\ call' = [call EXCEPT !.in.m = m]
  /\ UNCHANGED <<e2find_vars, dst, sync>>

\* ext2fs_get_next_inode fails for one inode at most
AltPass1Iter ==
  /\ AltRuns /\ call.in.m.pc = "pass1"
  /\ \E ret \in IF call.in.m.err = <<>> THEN {0, 1} ELSE {0} :
       AltBecomes(alt_pass1_iter(call.in.m, call.in.vol, call.in.after, ret))

AltPass2Iter ==
  /\ AltRuns /\ call.in.m.pc = "pass2"
  /\ \E ret \in {0, 1} : \E junk \in ImatchJunk(InodesCount) :
       AltBecomes(alt_pass2_iter(call.in.m, call.in.vol, junk, ret))

AltPass3Iter ==
  /\ AltRuns /\ call.in.m.pc = "pass3"
  /\ \E junk \in ImatchJunk(InodesCount) :
       AltBecomes(alt_pass3_iter(call.in.m, call.in.show_mtime, PathMax,
                                 junk))

NextAlt == AltPass1Iter \/ AltPass2Iter \/ AltPass3Iter

InitAlt ==
  /\ Idle
  /\ \E v \in AfterVolumes : \E after \in {U32Zero, NewTime} :
       \E show_mtime \in BOOLEAN :
         call = [fn |-> "e2find-alt",
                 in |-> [vol |-> v, after |-> after,
                         show_mtime |-> show_mtime, m |-> alt_start],
                 out |-> <<>>]

SpecAlt == InitAlt /\ [][NextAlt]_vars

(* ------------------------------------------------------------------ *)
(* What the properties speak of                                        *)
(* ------------------------------------------------------------------ *)
Done == pc = "exit"

\* the last inode of the volume is in use (its bit lies behind the
\* allocation of the bitfields)
LastInodeUsed(v) ==
  v.inodes_count % 8 = 0 /\ v.inode[v.inodes_count].links_count > 0

\* the inode number the dirent at offset at names, in machine m
dirent_ino(m, at) ==
  m.inodes.buffer[m.inodes_elsize * m.dirents.buffer[at].ino].ino

\* the inode numbers the records of m's stdout name
emitted_inos(m) == [k \in DOMAIN m.stdout |-> dirent_ino(m, m.stdout[k].at)]

EmittedPaths == [k \in DOMAIN stdout |-> stdout[k].path]
EmittedInos == emitted_inos(Machine)

\* how many records name inode ino
TimesEmitted(ino) == Cardinality({k \in DOMAIN stdout : EmittedInos[k] = ino})

\* The recursive walk of the mounted volume from its root: the pairs
\* <<path, ino>> of the entries met from entry k of directory d on,
\* "." and ".." left out.
RECURSIVE WalkFrom(_, _, _, _, _)
WalkFrom(v, d, prefix, k, fuel) ==
  IF k > Len(v.dir[d]) THEN <<>>
  ELSE LET e    == v.dir[d][k]
           path == prefix \o <<SLASH>> \o e.name
           rest == WalkFrom(v, d, prefix, k + 1, fuel)
       IN  IF e.name \in {<<DOT>>, <<DOT, DOT>>} THEN rest
           ELSE <<(<<path, e.inode>>)>>
                \o (IF v.inode[e.inode].dir /\ fuel > 0
                      THEN WalkFrom(v, e.inode, path, 1, fuel - 1) ELSE <<>>)
                \o rest

Walk(v) ==
  <<(<<(<<SLASH>>), EXT2_ROOT_INO>>)>>
  \o WalkFrom(v, EXT2_ROOT_INO, <<>>, 1, v.inodes_count)

WalkPaths(v) == [k \in DOMAIN Walk(v) |-> Walk(v)[k][1]]

\* every path of the volume fits a buffer of PATH_MAX bytes
AllFit(v, pmax) == \A k \in DOMAIN Walk(v) : Len(Walk(v)[k][1]) + 1 <= pmax

\* the number of components of an absolute path: the parts that follow
\* a slash; "/" has none
NumComponents(p) ==
  IF p = <<SLASH>> THEN 0 ELSE Cardinality({k \in DOMAIN p : p[k] = SLASH})

\* the component of p that starts at position a is the string c
ComponentIs(p, a, c) ==
  /\ a + Len(c) - 1 <= Len(p)
  /\ SubSeq(p, a, a + Len(c) - 1) = c
  /\ a + Len(c) > Len(p) \/ p[a + Len(c)] = SLASH

NoOptions ==
  opt.after = U32Zero /\ ~opt.unique /\ ~opt.show_mtime /\ ~opt.show_ctime

(* ------------------------------------------------------------------ *)
(* C1  With default options, on a consistent volume whose paths all    *)
(* fit PATH_MAX, the run ends with status 0 and the multiset of the    *)
(* paths it has written is the multiset of the paths of the recursive  *)
(* walk from the root: "/" and every entry but "." and "..".           *)
(* ------------------------------------------------------------------ *)
C1_WalkEquality ==
  (Done /\ NoOptions /\ AllFit(vol, path_max))
    => /\ status = 0
       /\ SeqToBag(EmittedPaths) = SeqToBag(WalkPaths(vol))

\* the run has ended normally and the last inode, in use, is in no record
C1_LastInodeOmitted ==
  /\ Done /\ NoOptions /\ AllFit(vol, path_max)
  /\ LastInodeUsed(vol)
  /\ status = 0
  /\ \A k \in DOMAIN stdout : EmittedInos[k] # vol.inodes_count

\* C1 restricted to the volumes whose last inode is free
WalkEquality_LastInodeFree ==
  (Done /\ NoOptions /\ AllFit(vol, path_max) /\ ~LastInodeUsed(vol))
    => /\ status = 0
       /\ SeqToBag(EmittedPaths) = SeqToBag(WalkPaths(vol))

\* a volume where a directory has a lower inode number than its parent
\* and a file has two names, all written
WalkEquality_Reached ==
  /\ Done /\ NoOptions /\ AllFit(vol, path_max) /\ ~LastInodeUsed(vol)
  /\ \E d \in DOMAIN vol.dir : \E k \in DOMAIN vol.dir[d] :
       LET e == vol.dir[d][k]
       IN  /\ e.name \notin {<<DOT>>, <<DOT, DOT>>}
           /\ e.inode < d
           /\ vol.inode[e.inode].dir
           /\ Len(vol.dir[e.inode]) > 2
  /\ \E i \in VolumeUsed(vol) : vol.inode[i].links_count = 2 /\ ~vol.inode[i].dir
  /\ Len(stdout) = Len(Walk(vol))

(* ------------------------------------------------------------------ *)
(* C2  When a run without -u has ended on a volume whose paths all     *)
(* fit: with --after T every record names an inode with mtime >= T or  *)
(* ctime >= T and every inode in use that is in no record has both     *)
(* below T; without --after every inode in use is in a record.         *)
(* ------------------------------------------------------------------ *)
Passes(ino) ==
  \/ U32Ge(vol.inode[ino].mtime, opt.after)
  \/ U32Ge(vol.inode[ino].ctime, opt.after)

AfterFilter ==
  IF opt.after = U32Zero
    THEN \A ino \in VolumeUsed(vol) : TimesEmitted(ino) >= 1
    ELSE /\ \A k \in DOMAIN stdout : Passes(EmittedInos[k])
         /\ \A ino \in VolumeUsed(vol) : TimesEmitted(ino) = 0 => ~Passes(ino)

C2_AfterFilter ==
  (Done /\ ~opt.unique /\ AllFit(vol, path_max)) => AfterFilter

\* the run with --after has ended normally and has written the last
\* inode, whose times are both below T
C2_OldInodeWritten ==
  /\ Done /\ status = 0 /\ ~opt.unique /\ AllFit(vol, path_max)
  /\ opt.after # U32Zero
  /\ \E k \in DOMAIN stdout :
       EmittedInos[k] = vol.inodes_count /\ ~Passes(EmittedInos[k])

\* C2 restricted to the volumes whose last inode is free
AfterFilter_LastInodeFree ==
  (Done /\ ~opt.unique /\ AllFit(vol, path_max) /\ ~LastInodeUsed(vol))
    => (status = 0 /\ AfterFilter)

\* with --after, a file that passes is written and the directory that
\* holds it, which does not pass, is not
AfterFilter_Reached ==
  /\ Done /\ status = 0 /\ opt.after # U32Zero /\ ~LastInodeUsed(vol)
  /\ \E k \in DOMAIN stdout :
       /\ NumComponents(stdout[k].path) = 2
       /\ Passes(EmittedInos[k])
  /\ \A k \in DOMAIN stdout : ~vol.inode[EmittedInos[k]].dir
  /\ Len(stdout) = 1

(* ------------------------------------------------------------------ *)
(* C3  With -u no inode number is written more than once, and every    *)
(* inode written by a finished run with -u is written by the run       *)
(* without -u on the same volume and platform.                         *)
(* ------------------------------------------------------------------ *)
WithoutUnique ==
  run(Start(vol, [opt EXCEPT !.unique = FALSE], env), vol)

C3_UniqueNoDuplicate ==
  opt.unique =>
    /\ \A k \in DOMAIN stdout : \A j \in DOMAIN stdout :
         EmittedInos[k] = EmittedInos[j] => k = j
    /\ Done => Range(EmittedInos) \subseteq Range(emitted_inos(WithoutUnique))

\* a finished run with -u on a volume with a file of two names, both
\* fitting the buffer: the file is in one record, and the run without
\* -u writes more records
C3_HardLinkOnce ==
  /\ Done /\ opt.unique /\ status = 0
  /\ AllFit(vol, path_max)
  /\ \E k \in DOMAIN stdout :
       /\ vol.inode[EmittedInos[k]].links_count = 2
       /\ ~vol.inode[EmittedInos[k]].dir
  /\ Len(WithoutUnique.stdout) > Len(stdout)

(* ------------------------------------------------------------------ *)
(* C4  With -u, when the run has ended, every inode in use that has a  *)
(* directory entry in DirentStore whose path dirent_to_path resolves   *)
(* is in exactly one record (stated for the volumes whose last inode   *)
(* is free, where every inode in use is selected).                     *)
(* ------------------------------------------------------------------ *)
Resolves(at) ==
  dirent_to_path(dirents, dirents.buffer[at], path_buffer(path_max),
                 path_max).ret = 0

Resolvable(ino) ==
  \E at \in DOMAIN dirents.buffer : dirent_ino(Machine, at) = ino /\ Resolves(at)

C4_UniqueResolvableOnce ==
  (Done /\ status = 0 /\ opt.unique /\ opt.after = U32Zero
     /\ ~LastInodeUsed(vol))
    => \A ino \in VolumeUsed(vol) : Resolvable(ino) => TimesEmitted(ino) = 1

\* the run with -u has ended; a file has a name that resolves, and is
\* in no record because its earlier name did not resolve
C4_ResolvableSuppressed ==
  /\ Done /\ status = 0 /\ opt.unique /\ opt.after = U32Zero
  /\ ~LastInodeUsed(vol)
  /\ \E ino \in VolumeUsed(vol) :
       /\ Resolvable(ino)
       /\ TimesEmitted(ino) = 0
       /\ \E at \in DOMAIN dirents.buffer :
            dirent_ino(Machine, at) = ino /\ ~Resolves(at)

(* ------------------------------------------------------------------ *)
(* C5  Two runs with the same options on the same volume write the     *)
(* same bytes to stdout and end with the same status: whatever run     *)
(* has ended, any other run of the same command on a platform with    *)
(* the same PATH_MAX ends alike.                                       *)
(* ------------------------------------------------------------------ *)
SameAs(m) == OutputBytes(m.stdout) = OutputBytes(stdout) /\ m.status = status

C5_Deterministic ==
  Done => \A e \in Platforms(vol, {path_max}) :
            SameAs(run(Start(vol, opt, e), vol))

\* a run that ended with status 0, and a second run of the same
\* command on the same volume that ends with status 0 and other output
C5_TwoOutputs ==
  /\ Done /\ status = 0
  /\ \E e \in Platforms(vol, {path_max}) :
       LET m == run(Start(vol, opt, e), vol)
       IN  m.status = 0 /\ OutputBytes(m.stdout) # OutputBytes(stdout)

(* ------------------------------------------------------------------ *)
(* C6  Every path written begins with "/", has no empty component, no  *)
(* component "." or "..", and at most 255 components; the record of    *)
(* the root is exactly "/".                                            *)
(* ------------------------------------------------------------------ *)
WellFormed(p) ==
  /\ Len(p) >= 1
  /\ p[1] = SLASH
  /\ p # <<SLASH>> =>
       /\ NumComponents(p) <= MAX_COMPONENTS
       /\ \A k \in DOMAIN p :
            p[k] = SLASH =>
              /\ ~ComponentIs(p, k + 1, <<>>)
              /\ ~ComponentIs(p, k + 1, <<DOT>>)
              /\ ~ComponentIs(p, k + 1, <<DOT, DOT>>)

C6_PathWellFormed ==
  \A k \in DOMAIN stdout :
    /\ WellFormed(stdout[k].path)
    /\ EmittedInos[k] = EXT2_ROOT_INO <=> stdout[k].path = <<SLASH>>

\* the run on a tree deeper than 255 has ended: the root is written as
\* "/", a path of 254 components is written, and the deeper entries
\* have got a warning each and no record
C6_DeepPathWritten ==
  /\ Done
  /\ \E k \in DOMAIN stdout :
       EmittedInos[k] = EXT2_ROOT_INO /\ stdout[k].path = <<SLASH>>
  /\ \E k \in DOMAIN stdout :
       NumComponents(stdout[k].path) = MAX_COMPONENTS - 1
  /\ Cardinality(VolumeUsed(vol)) > MAX_COMPONENTS + 1
  /\ Len(stdout) + Len(stderr) = Cardinality(VolumeUsed(vol))
  /\ stderr # <<>>
  /\ \A k \in DOMAIN stderr : stderr[k].ret = 2

\* a path of three components, of which one is the second name of a file
C6_HardLinkPathWritten ==
  /\ \E k \in DOMAIN stdout :
       EmittedInos[k] = EXT2_ROOT_INO /\ stdout[k].path = <<SLASH>>
  /\ \E k \in DOMAIN stdout :
       /\ NumComponents(stdout[k].path) = 3
       /\ vol.inode[EmittedInos[k]].links_count = 2
       /\ ~vol.inode[EmittedInos[k]].dir

(* ------------------------------------------------------------------ *)
(* C7  Every record is prefix, path, terminator.  The prefix is empty  *)
(* with neither -m nor -c; else it is made of the fields, each ended   *)
(* by a space, that denote the mtime (-m), the ctime (-c), or the      *)
(* mtime then the ctime (both) of the inode the record's dirent names. *)
(* The terminator is NUL iff -0 is given, else the newline.            *)
(* ------------------------------------------------------------------ *)
\* the fields of a prefix: the parts ended by a space, spaces left out
RECURSIVE Fields(_, _)
Fields(s, cur) ==
  IF s = <<>> THEN (IF cur = <<>> THEN <<>> ELSE <<cur \o <<"?">> >>)
  ELSE IF Head(s) = SP
    THEN (IF cur = <<>> THEN <<>> ELSE <<cur>>) \o Fields(Tail(s), <<>>)
  ELSE Fields(Tail(s), Append(cur, Head(s)))

\* the 32 bits a decimal field denotes, the sign read in two's complement
U32Neg(t) ==
  IF t[2] = 0 THEN <<(65536 - t[1]) % 65536, 0>> ELSE <<65535 - t[1], 65536 - t[2]>>

FieldValue(f) ==
  IF Head(f) = "-" THEN U32Neg(atou32(Tail(f), U32Zero)) ELSE atou32(f, U32Zero)

ExpectedTimes(ino) ==
  (IF opt.show_mtime THEN <<vol.inode[ino].mtime>> ELSE <<>>)
  \o (IF opt.show_ctime THEN <<vol.inode[ino].ctime>> ELSE <<>>)

UnsignedColumn(t) == Append(PadLeft(U32Dec(t), 10, SP), SP)

RECURSIVE UnsignedColumns(_)
UnsignedColumns(ts) ==
  IF ts = <<>> THEN <<>>
  ELSE UnsignedColumn(Head(ts)) \o UnsignedColumns(Tail(ts))

C8_UnsignedColumns ==
  \A k \in DOMAIN stdout :
    stdout[k].prefix = UnsignedColumns(ExpectedTimes(EmittedInos[k]))

\* a record whose column shows a negative number, 11 characters wide
C8_NegativeColumn ==
  \E k \in DOMAIN stdout :
    /\ opt.show_mtime /\ ~opt.show_ctime
    /\ U32Ge(vol.inode[EmittedInos[k]].mtime, U32(32768, 0))
    /\ Head(stdout[k].prefix) = "-"
    /\ Len(stdout[k].prefix) = 12

\* C8 for the timestamps below 2^31
UnsignedColumns_Below2G ==
  \A k \in DOMAIN stdout :
    (\A j \in DOMAIN ExpectedTimes(EmittedInos[k]) :
        ~U32Ge(ExpectedTimes(EmittedInos[k])[j], U32(32768, 0)))
      => stdout[k].prefix = UnsignedColumns(ExpectedTimes(EmittedInos[k]))

(* ------------------------------------------------------------------ *)
(* C9  e2sync's reader accepts every record e2find writes under        *)
(* -0 -m -c and recovers the mtime, the ctime and the path e2find      *)
(* wrote: record k read from the source is record k of stdout.         *)
(* ------------------------------------------------------------------ *)
Recovered(k) ==
  /\ sync.parsed[k].mtime = vol.inode[EmittedInos[k]].mtime
  /\ sync.parsed[k].ctime = vol.inode[EmittedInos[k]].ctime
  /\ sync.parsed[k].path = stdout[k].path

C9_RoundTrip ==
  sync.pc # "off" =>
    /\ sync.status # 7
    /\ \A k \in DOMAIN sync.parsed : Recovered(k)

\* a record with a newline in its path has been read, and the path
\* recovered is cut at the newline
C9_PathCutAtNewline ==
  /\ sync.pc # "off"
  /\ \E k \in DOMAIN sync.parsed :
       /\ NL \in Range(stdout[k].path)
       /\ sync.parsed[k].path # stdout[k].path
       /\ sync.parsed[k].path = SubSeq(stdout[k].path, 1, Len(sync.parsed[k].path))

\* C9 for the records whose times are below 2^31 and whose path has no
\* newline
RoundTrip_PlainRecords ==
  sync.pc # "off" =>
    \A k \in DOMAIN sync.parsed :
      (/\ NL \notin Range(stdout[k].path)
       /\ \A j \in 1 .. 2 : ~U32Ge(ExpectedTimes(EmittedInos[k])[j], U32(32768, 0)))
        => Recovered(k)

(* ------------------------------------------------------------------ *)
(* C10  When e2sync has ended, the list handed to rsync holds "/",     *)
(* every path that is on one side only, and every path on both sides   *)
(* whose mtime or ctime differ; a path of the destination only may be  *)
(* missing when one of its ancestors is of the destination only and    *)
(* is in the list.                                                     *)
(* ------------------------------------------------------------------ *)
PathsOf(v) == {Walk(v)[k][1] : k \in DOMAIN Walk(v)}

\* the inode of v at path p
InodeAt(v, p) ==
  v.inode[Walk(v)[CHOOSE k \in DOMAIN Walk(v) : Walk(v)[k][1] = p][2]]

Differ(p) ==
  \/ InodeAt(vol, p).mtime # InodeAt(dst.vol, p).mtime
  \/ InodeAt(vol, p).ctime # InodeAt(dst.vol, p).ctime

\* a is a proper ancestor of p, the root left out
Ancestor(a, p) ==
  /\ Len(a) < Len(p)
  /\ SubSeq(p, 1, Len(a)) = a
  /\ p[Len(a) + 1] = SLASH

DstOnly == PathsOf(dst.vol) \ PathsOf(vol)

ToSync ==
  {<<SLASH>>}
  \cup (PathsOf(vol) \ PathsOf(dst.vol))
  \cup DstOnly
  \cup {p \in PathsOf(vol) \cap PathsOf(dst.vol) : Differ(p)}

Listed(p) ==
  \/ p \in sync.list
  \/ /\ p \in DstOnly
     /\ \E a \in DstOnly : Ancestor(a, p) /\ a \in sync.list

C10_SyncListComplete ==
  sync.pc = "exit" => (sync.status = 0 /\ \A p \in ToSync : Listed(p))

\* e2sync has ended with status 0; a path is on both sides, later in
\* the destination than in the source, and not in the list
C10_LaterInDestination ==
  /\ sync.pc = "exit" /\ sync.status = 0
  /\ \E p \in PathsOf(vol) \cap PathsOf(dst.vol) :
       /\ p # <<SLASH>>
       /\ Differ(p)
       /\ p \notin sync.list
       /\ \/ U32Gt(InodeAt(dst.vol, p).mtime, InodeAt(vol, p).mtime)
          \/ U32Gt(InodeAt(dst.vol, p).ctime, InodeAt(vol, p).ctime)

\* C10 for the destinations where nothing is later than in the source
SyncList_NoLaterDestination ==
  (/\ sync.pc = "exit"
   /\ \A p \in PathsOf(vol) \cap PathsOf(dst.vol) :
        /\ ~U32Gt(InodeAt(dst.vol, p).mtime, InodeAt(vol, p).mtime)
        /\ ~U32Gt(InodeAt(dst.vol, p).ctime, InodeAt(vol, p).ctime))
    => (sync.status = 0 /\ \A p \in ToSync : Listed(p))

\* a deletion left out because its directory is deleted, a new path
\* and an older path in the list
SyncList_Reached ==
  /\ sync.pc = "exit" /\ sync.status = 0
  /\ \E p \in DstOnly : p \notin sync.list
  /\ \E p \in PathsOf(vol) \ PathsOf(dst.vol) : p \in sync.list
  /\ \A p \in ToSync : Listed(p)

(* ------------------------------------------------------------------ *)
(* C11  On a table of n >= 1 records in ascending ino order, for an    *)
(* ino that is in the table, inode_lookup returns the record of that   *)
(* ino and its position, and reads no index outside 0 .. n - 1.        *)
(* ------------------------------------------------------------------ *)
\* the positions of the records of table a that hold ino
PositionsOf(a, ino) ==
  {k \in 0 .. a.count - 1 : a.buffer[LookupElsize * k].ino = ino}

\* every index read lies in the table
ReadsInside(look, a) ==
  \A k \in DOMAIN look.reads : look.reads[k] \in 0 .. a.count - 1

C11_LookupFinds ==
  (/\ call.fn = "inode_lookup"
   /\ Called
   /\ PositionsOf(call.in.inodes, call.in.ino) # {})
    => /\ call.out[1].found
       /\ PositionsOf(call.in.inodes, call.in.ino) = {call.out[1].pos}
       /\ ReadsInside(call.out[1], call.in.inodes)

\* a record of a table of 16 records or more is found after reads that
\* went up and reads that went down
C11_FoundAfterBisection ==
  /\ call.fn = "inode_lookup"
  /\ Called
  /\ call.in.inodes.count >= 16
  /\ call.out[1].found
  /\ \E k \in DOMAIN call.out[1].reads : \E j \in DOMAIN call.out[1].reads :
       k < j /\ call.out[1].reads[k] < call.out[1].reads[j]
  /\ \E k \in DOMAIN call.out[1].reads : \E j \in DOMAIN call.out[1].reads :
       k < j /\ call.out[1].reads[k] > call.out[1].reads[j]
  /\ Len(call.out[1].reads) >= 4

\* the only record of a table of one is found without bisection
C11_FoundInTableOfOne ==
  /\ call.fn = "inode_lookup"
  /\ Called
  /\ call.in.inodes.count = 1
  /\ call.out[1].found
  /\ call.out[1].reads = <<0>>

(* ------------------------------------------------------------------ *)
(* C12  When dirent_cb is called for an entry naming an inode that is  *)
(* not in the table (below the first record, between two records,      *)
(* above the last one, or the table is empty), the run exits with      *)
(* status 10, and the lookup has read no index outside 0 .. n - 1.     *)
(* ------------------------------------------------------------------ *)
LookupMiss ==
  /\ call.fn = "dirent_cb"
  /\ Called
  /\ PositionsOf(call.in.inodes, call.in.ino) = {}

MissReported ==
  /\ call.out[1].ret = -1
  /\ call.out[1].status = 10
  /\ ReadsInside(call.out[1].lookup[1], call.in.inodes)

C12_MissExits10 == LookupMiss => MissReported

\* the inode is above the last record and the heap behind the records
\* holds its number: dirent_cb goes on and stores a dirent whose ino
\* index is the count of the table
C12_MissTakenForRecord ==
  /\ LookupMiss
  /\ call.in.inodes.count >= 1
  /\ call.out[1].ret = 0
  /\ call.out[1].dirents.count = 1
  /\ call.out[1].dirents.buffer[0].ino = call.in.inodes.count

\* C12 for the inodes that lie between two records of the table
LookupMiss_BetweenRecords ==
  (/\ LookupMiss
   /\ \E k \in 0 .. call.in.inodes.count - 1 :
        call.in.inodes.buffer[LookupElsize * k].ino < call.in.ino
   /\ \E k \in 0 .. call.in.inodes.count - 1 :
        call.in.inodes.buffer[LookupElsize * k].ino > call.in.ino)
    => MissReported

\* a miss between two records of a table of 16 or more has ended the run
LookupMiss_Reached ==
  /\ LookupMiss
  /\ call.in.inodes.count >= 16
  /\ MissReported

(* ------------------------------------------------------------------ *)
(* C13  After pass 2, for every inode that directory entries name, the *)
(* dirent offset of its record is the offset of the last entry         *)
(* observed for it: every entry naming the inode stores its own        *)
(* offset.  (The claim as worded, C13_FirstEntryOffset, says the       *)
(* first entry.)                                                       *)
(* ------------------------------------------------------------------ *)
AfterPass2 == pc \in {"fixup", "emit"} \/ (Done /\ status = 0)

\* the offsets of the dirents that name the inode of record idx
OffsetsNaming(idx) ==
  {o \in DOMAIN dirents.buffer : dirents.buffer[o].ino = idx}

C13_LastEntryOffset ==
  AfterPass2 =>
    \A idx \in 0 .. inodes.count - 1 :
      OffsetsNaming(idx) # {} =>
        /\ inodes.buffer[inodes_elsize * idx].dirent \in OffsetsNaming(idx)
        /\ \A o \in OffsetsNaming(idx) :
             o <= inodes.buffer[inodes_elsize * idx].dirent

C13_FirstEntryOffset ==
  AfterPass2 =>
    \A idx \in 0 .. inodes.count - 1 :
      OffsetsNaming(idx) # {} =>
        /\ inodes.buffer[inodes_elsize * idx].dirent \in OffsetsNaming(idx)
        /\ \A o \in OffsetsNaming(idx) :
             o >= inodes.buffer[inodes_elsize * idx].dirent

\* pass 2 is over and a file has two entries: its record holds the
\* offset of the second
C13_HardLinkOffset ==
  /\ AfterPass2
  /\ \E idx \in 0 .. inodes.count - 1 :
       /\ Cardinality(OffsetsNaming(idx)) = 2
       /\ \E o \in OffsetsNaming(idx) :
            o < inodes.buffer[inodes_elsize * idx].dirent

(* ------------------------------------------------------------------ *)
(* C14  After the fix-up pass, the parent of every dirent with a       *)
(* non-empty name is the offset of a dirent that names a directory     *)
(* inode: the directory in which the entry of the dirent lies; also    *)
(* when no entry names that directory.                                 *)
(* ------------------------------------------------------------------ *)
AfterFixup == pc = "emit" \/ (Done /\ status = 0)

\* the directory of the volume that holds the entry stored as dirent d
DirectoryOf(d) ==
  CHOOSE dir \in DOMAIN vol.dir :
    \E k \in DOMAIN vol.dir[dir] :
      /\ vol.dir[dir][k].inode = inodes.buffer[inodes_elsize * d.ino].ino
      /\ vol.dir[dir][k].name = CStr(d.name)

ParentIsDirectoryOf(d) ==
  /\ d.parent \in DOMAIN dirents.buffer
  /\ LET par == inodes.buffer[inodes_elsize * dirents.buffer[d.parent].ino].ino
     IN  vol.inode[par].dir /\ par = DirectoryOf(d)

C14_ParentIsDirectory ==
  AfterFixup =>
    \A o \in DOMAIN dirents.buffer :
      strlen(dirents.buffer[o].name) > 0 => ParentIsDirectoryOf(dirents.buffer[o])

\* the fix-up is over; a dirent lies in a directory that no dirent
\* names, and its parent is the dirent of the root
C14_ChildOfOrphanUnderRoot ==
  /\ AfterFixup
  /\ \E o \in DOMAIN dirents.buffer :
       LET d == dirents.buffer[o]
       IN  /\ strlen(d.name) > 0
           /\ DirectoryOf(d) # EXT2_ROOT_INO
           /\ \A p \in DOMAIN dirents.buffer :
                dirent_ino(Machine, p) # DirectoryOf(d)
           /\ d.parent \in DOMAIN dirents.buffer
           /\ dirent_ino(Machine, d.parent) = EXT2_ROOT_INO

\* C14 on the volumes where an entry names every directory
ParentIsDirectory_AllNamed ==
  (AfterFixup /\ vol \in LastInodeFreeVolumes) =>
    \A o \in DOMAIN dirents.buffer :
      strlen(dirents.buffer[o].name) > 0 => ParentIsDirectoryOf(dirents.buffer[o])

\* the fix-up is over on a volume with a directory in a directory, each
\* with entries, the inner one of the lower inode number
ParentIsDirectory_Reached ==
  /\ AfterFixup
  /\ vol \in LastInodeFreeVolumes
  /\ \E o \in DOMAIN dirents.buffer : \E p \in DOMAIN dirents.buffer :
       /\ dirents.buffer[o].parent = p
       /\ p # 0
       /\ dirents.buffer[p].parent # 0
       /\ dirent_ino(Machine, o) > dirent_ino(Machine, p)
       /\ dirent_ino(Machine, p) < dirent_ino(Machine, dirents.buffer[p].parent)

(* ------------------------------------------------------------------ *)
(* C15  After pass 2 and the fix-up, on a volume whose root holds its  *)
(* "." entry: one dirent and no more has an empty name, a dirent has   *)
(* an empty name iff it names inode 2, and the parent of that dirent   *)
(* is its own offset.                                                  *)
(* ------------------------------------------------------------------ *)
RootHasDot ==
  \E k \in DOMAIN vol.dir[EXT2_ROOT_INO] :
    /\ vol.dir[EXT2_ROOT_INO][k].inode = EXT2_ROOT_INO
    /\ vol.dir[EXT2_ROOT_INO][k].name = <<DOT>>

EmptyNamed == {o \in DOMAIN dirents.buffer : strlen(dirents.buffer[o].name) = 0}

C15_RootSentinel ==
  (AfterFixup /\ RootHasDot) =>
    /\ Cardinality(EmptyNamed) = 1
    /\ \A o \in DOMAIN dirents.buffer :
         o \in EmptyNamed <=> dirent_ino(Machine, o) = EXT2_ROOT_INO
    /\ \A o \in EmptyNamed : dirents.buffer[o].parent = o

\* the fix-up is over on a volume with a directory and a file in it:
\* three dirents or more, of which the root's points to itself
C15_RootAmongDirents ==
  /\ AfterFixup
  /\ RootHasDot
  /\ dirents.count >= 3
  /\ \E o \in EmptyNamed :
       dirents.buffer[o].parent = o /\ dirent_ino(Machine, o) = EXT2_ROOT_INO
  /\ \E o \in DOMAIN dirents.buffer :
       o \notin EmptyNamed /\ dirents.buffer[o].parent \notin EmptyNamed

(* ------------------------------------------------------------------ *)
(* C16  dirent_to_path returns 2 (too deep) exactly when the chain     *)
(* from the dirent to the root has more than 255 names: 255 names      *)
(* resolve, 256 fail.  (Stated for the buffers that hold the path up   *)
(* to the point where the depth is tested.)                            *)
(* ------------------------------------------------------------------ *)
PathCalled == call.fn = "dirent_to_path" /\ Called

\* the bytes of "/" + the names joined by "/" + NUL
BytesNeeded(n, len) == IF n = 0 THEN 2 ELSE n * (len + 1) + 1

\* the buffer holds MAX_COMPONENTS names of the chain and one more slash
HoldsMaxComponents ==
  call.in.path_max >=
    Min(call.in.n, MAX_COMPONENTS) * (call.in.len + 1) + 2

C16_TooDeepAbove255 ==
  (PathCalled /\ call.in.kind # "cycle" /\ HoldsMaxComponents) =>
    (call.out[1].ret = 2 <=> call.in.n > MAX_COMPONENTS)

\* a chain of 255 names with a buffer that holds its path: too deep
C16_Exactly255TooDeep ==
  /\ PathCalled
  /\ call.in.kind = "tree"
  /\ call.in.n = MAX_COMPONENTS
  /\ BytesNeeded(call.in.n, call.in.len) <= call.in.path_max
  /\ call.out[1].ret = 2

\* what the code does: too deep from 255 names on
TooDeep_From255 ==
  (PathCalled /\ call.in.kind # "cycle" /\ HoldsMaxComponents) =>
    (call.out[1].ret = 2 <=> call.in.n > MAX_COMPONENTS - 1)

\* a chain of 254 names resolves
TooDeep_254Resolves ==
  /\ PathCalled
  /\ call.in.n = MAX_COMPONENTS - 1
  /\ call.out[1].ret = 0

(* ------------------------------------------------------------------ *)
(* C17  For every chain and every path_max >= 1, dirent_to_path writes *)
(* no byte below index 0 or at or above path_max; unless it returns    *)
(* TooDeep, it returns 1 whenever "/" + the names joined by "/" + NUL  *)
(* does not fit in path_max bytes, and otherwise returns 0 with        *)
(* exactly that path, NUL-terminated, from index 0 of the buffer.      *)
(* ------------------------------------------------------------------ *)
\* "/" + the n names of the chain joined by "/"
ExpectedPath(n, len) ==
  IF n = 0 THEN <<SLASH>>
  ELSE [k \in 1 .. n * (len + 1) |->
          IF (k - 1) % (len + 1) = 0 THEN SLASH ELSE "a"]

PathFits == BytesNeeded(call.in.n, call.in.len) <= call.in.path_max

WritesInside ==
  /\ call.out[1].wmin >= 0
  /\ call.out[1].wmax <= call.in.path_max - 1

PathWritten ==
  /\ call.out[1].ret = 0
  /\ call.out[1].path[BytesNeeded(call.in.n, call.in.len)] = NUL
  /\ buffer_string(call.out[1].path)
       = ExpectedPath(call.in.n, call.in.len)

C17_PathInsideBuffer ==
  PathCalled =>
    /\ WritesInside
    /\ (call.in.kind # "cycle" /\ call.out[1].ret # 2) =>
         IF PathFits THEN PathWritten ELSE call.out[1].ret = 1

\* a path of several names that fills the buffer to its last byte, and
\* came out right
C17_PathFillsBuffer ==
  /\ PathCalled
  /\ call.in.kind = "tree"
  /\ call.in.n >= 2
  /\ BytesNeeded(call.in.n, call.in.len) = call.in.path_max
  /\ PathWritten
  /\ call.out[1].wmin = 0

\* a path one byte longer than the buffer
C17_OneByteShort ==
  /\ PathCalled
  /\ call.in.kind = "tree"
  /\ call.in.n >= 1
  /\ BytesNeeded(call.in.n, call.in.len) = call.in.path_max + 1
  /\ call.out[1].ret = 1
  /\ WritesInside

(* ------------------------------------------------------------------ *)
(* C18  A path-resolution error on a dirent during pass 3 is not       *)
(* fatal: the run ends with status 0, the dirent has a warning on      *)
(* stderr and no record on stdout, and the other dirents are treated   *)
(* as if the failing one were not in DirentStore: a dirent that        *)
(* resolves is written, with -u unless an earlier dirent that resolves *)
(* names the same inode.  (Stated for the volumes whose last inode is  *)
(* free, where every inode in use is selected.)                        *)
(* ------------------------------------------------------------------ *)
PathWarnings == {k \in DOMAIN stderr : stderr[k].warning = "path resolution error"}

\* the dirent at offset at has a record on stdout
Written(at) == \E k \in DOMAIN stdout : stdout[k].at = at

\* the dirent at offset at has a warning on stderr
Warned(at) == \E k \in PathWarnings : stderr[k].ino = dirents.buffer[at].ino

\* an earlier dirent names the same inode as the one at offset at
EarlierNames(at) ==
  {o \in DOMAIN dirents.buffer :
     o < at /\ dirent_ino(Machine, o) = dirent_ino(Machine, at)}

C18_ResolutionErrorNotFatal ==
  (Done /\ PathWarnings # {} /\ ~LastInodeUsed(vol)) =>
    /\ status = 0
    /\ \A at \in DOMAIN dirents.buffer :
         IF Resolves(at)
           THEN Written(at) <=>
                  (opt.unique => \A o \in EarlierNames(at) : ~Resolves(o))
           ELSE /\ ~Written(at)
                /\ EarlierNames(at) = {} => Warned(at)

\* the run with -u has ended with a warning for a name of a file, and
\* the later name of the file, which resolves, is not written
C18_LaterNameNotWritten ==
  /\ Done /\ status = 0 /\ opt.unique
  /\ ~LastInodeUsed(vol)
  /\ \E at \in DOMAIN dirents.buffer :
       /\ Resolves(at)
       /\ ~Written(at)
       /\ EarlierNames(at) # {}
       /\ \A o \in EarlierNames(at) : ~Resolves(o) /\ Warned(o)

\* without -u the other dirents are written as if the failing one were
\* not there
ResolutionError_WithoutUnique ==
  (Done /\ PathWarnings # {} /\ ~LastInodeUsed(vol) /\ ~opt.unique) =>
    /\ status = 0
    /\ \A at \in DOMAIN dirents.buffer :
         IF Resolves(at) THEN Written(at)
         ELSE ~Written(at) /\ Warned(at)

\* a run without -u with a warning, and a record for a later dirent
ResolutionError_Reached ==
  /\ Done /\ status = 0 /\ ~opt.unique
  /\ ~LastInodeUsed(vol)
  /\ \E at \in DOMAIN dirents.buffer :
       /\ ~Resolves(at) /\ Warned(at) /\ ~Written(at)
       /\ \E o \in DOMAIN dirents.buffer : o > at /\ Written(o)

(* ------------------------------------------------------------------ *)
(* C19  dirent_to_path returns on every parent graph, also when the    *)
(* parents form a cycle that never reaches an empty name: the loop     *)
(* body runs at most 256 times, then the function has returned 0 or    *)
(* an error; on a cycle it returns an error.  The walk ends at the     *)
(* dirent with the empty name whatever that dirent's parent offset is. *)
(* ------------------------------------------------------------------ *)
C19_LoopBounded ==
  PathCalled =>
    /\ call.out[1].ret \in {0, 1, 2}
    /\ call.out[1].i <= MAX_COMPONENTS + 1
    /\ call.in.kind = "cycle" => call.out[1].ret \in {1, 2}
    /\ (call.in.kind = "rootout" /\ PathFits
          /\ call.in.n < MAX_COMPONENTS) => PathWritten

\* a cycle in a buffer with room for 255 turns: the 256th turn returns
C19_CycleCutAt256 ==
  /\ PathCalled
  /\ call.in.kind = "cycle"
  /\ call.out[1].ret = 2
  /\ call.out[1].i = MAX_COMPONENTS + 1

\* a dirent that is its own parent and is not the root
C19_SelfParent ==
  /\ PathCalled
  /\ call.in.kind = "cycle"
  /\ call.in.n = 1
  /\ call.out[1].ret \in {1, 2}

\* the root's parent is another dirent, and the walk ends at the root
C19_RootByName ==
  /\ PathCalled
  /\ call.in.kind = "rootout"
  /\ call.in.n >= 1
  /\ PathWritten

(* ------------------------------------------------------------------ *)
(* C20  When realloc() refuses to grow the InodeTable or the           *)
(* DirentStore, the run aborts with a status that is not 0: as long    *)
(* as the run goes on, and when it has ended with status 0, the        *)
(* InodeTable holds a record for every inode in use that the scan has  *)
(* delivered, and the DirentStore one for every entry dirent_cb had    *)
(* to store.                                                           *)
(* ------------------------------------------------------------------ *)
RecordsDue == Cardinality({ino \in VolumeUsed(vol) : ino < scan})

\* the entries of the root that dirent_cb was called for, less ".."
DirentsDue ==
  LET called == IF pc = "pass1" THEN 0
                ELSE IF pc = "pass2" /\ index = 0
                  THEN (IF entry = 0 THEN 0 ELSE entry - 1)
                ELSE Len(vol.dir[EXT2_ROOT_INO])
  IN  IF called >= 2 THEN called - 1 ELSE called

C20_AllocationFailureFatal ==
  (pc \in {"pass1", "pass2"} \/ (Done /\ status = 0)) =>
    /\ inodes.count = RecordsDue
    /\ dirents.count = DirentsDue

\* pass 1 goes on with an inode in use that has no record
C20_InodeRecordMissing ==
  /\ pc = "pass1"
  /\ inodes.count < RecordsDue
  /\ inodes.bytes_alloc = ARRAY_MIN_BYTES

\* pass 2 goes on with an entry that has no dirent, and the record of
\* its inode holds the offset where the dirent would have been
Allocation_DirentMissing ==
  /\ pc = "pass2"
  /\ dirents.count < DirentsDue
  /\ \E off \in DOMAIN inodes.buffer :
       inodes.buffer[off].dirent = dirents.bytes_used

\* realloc() has grown the table to twice its size, no record missing
Allocation_Grown ==
  /\ pc = "pass1"
  /\ inodes.bytes_alloc = 2 * ARRAY_MIN_BYTES
  /\ inodes.count = RecordsDue

(* ------------------------------------------------------------------ *)
(* C21  After any sequence of successful array_add calls of at most    *)
(* 266 bytes each on an initialised array, bytes_used <= bytes_alloc   *)
(* and bytes_alloc is the smallest of 64 KiB, 128 KiB, 256 KiB,        *)
(* 512 KiB, 1 MiB, 2 MiB, 3 MiB, ... that is >= bytes_used: one growth *)
(* is enough for the append that asks for it.                          *)
(* ------------------------------------------------------------------ *)
KiB == 1024
MiB == 1024 * 1024

CapacitySequence ==
  {64 * KiB, 128 * KiB, 256 * KiB, 512 * KiB}
    \cup {j * MiB : j \in 1 .. MaxMiB + 2}

SmallestCapacity(used) ==
  CHOOSE c \in CapacitySequence :
    c >= used /\ \A d \in CapacitySequence : d >= used => c <= d

C21_CapacityOfSequence ==
  call.fn = "array_add" =>
    /\ call.in.a.bytes_used <= call.in.a.bytes_alloc
    /\ call.in.a.bytes_alloc = SmallestCapacity(call.in.a.bytes_used)

\* appends have returned 1 and the array has grown from 2 MiB to 3 MiB
C21_GrownByOneMiB ==
  /\ call.fn = "array_add"
  /\ call.out = <<1>>
  /\ call.in.size = 2 * MiB
  /\ call.in.a.bytes_alloc = 3 * MiB
  /\ call.in.a.bytes_used > 2 * MiB

\* an append has filled the allocation of 64 KiB to the last byte, and
\* the array has not grown
C21_ExactFit ==
  /\ call.fn = "array_add"
  /\ call.out = <<1>>
  /\ call.in.a.bytes_used = ARRAY_MIN_BYTES
  /\ call.in.a.bytes_alloc = ARRAY_MIN_BYTES

(* ------------------------------------------------------------------ *)
(* C22  Every bitfield_set, bitfield_get and bitfield_clear of a run   *)
(* has a bit offset below nbits, the inode count the bitfield was      *)
(* allocated for, and touches no byte outside the allocated            *)
(* ceil(nbits / 8) bytes, also when the inode whose number is the      *)
(* inode count is in use.                                              *)
(* ------------------------------------------------------------------ *)
\* the bitfield accesses of the step the run takes next: [b, offset]
PendingAccesses ==
  IF pc = "pass1" /\ scan <= vol.inodes_count
    THEN LET inode == vol.inode[scan]
             kept  == inode.links_count > 0
                        /\ (scan >= EXT2_GOOD_OLD_FIRST_INO
                              \/ scan = EXT2_ROOT_INO)
         IN  {[b |-> iisdir, offset |-> scan] : x \in {1} \cap
                {IF kept /\ inode.dir THEN 1 ELSE 0}}
             \cup {[b |-> iselect, offset |-> scan] : x \in {1} \cap
                {IF kept /\ opt.after # U32Zero
                         /\ (U32Ge(inode.mtime, opt.after)
                               \/ U32Ge(inode.ctime, opt.after))
                   THEN 1 ELSE 0}}
  ELSE IF pc = "pass2" /\ entry = 0 /\ index < inodes.count
    THEN {[b |-> iisdir,
           offset |-> inodes.buffer[inodes_elsize * index].ino]}
  ELSE IF pc = "emit"
    THEN {[b |-> iselect, offset |-> dirent_ino(Machine, anyp)]}
  ELSE {}

C22_OffsetsBelowNbits ==
  \A a \in PendingAccesses :
    /\ a.offset < vol.inodes_count
    /\ bitfield_inside(a.b, a.offset)

\* the bit of the inode whose number is the inode count is about to be
\* read in a byte behind the allocation
C22_LastInodeBehindAllocation ==
  \E a \in PendingAccesses :
    /\ a.offset = vol.inodes_count
    /\ vol.inode[a.offset].links_count > 0
    /\ ~bitfield_inside(a.b, a.offset)

\* with the last inode free every offset is below nbits
BitOffsets_LastInodeFree ==
  vol.inode[vol.inodes_count].links_count = 0 => C22_OffsetsBelowNbits

\* the highest inode in use below the inode count is being looked up
BitOffsets_Reached ==
  /\ vol.inode[vol.inodes_count].links_count = 0
  /\ pc = "emit"
  /\ \E a \in PendingAccesses : a.offset > EXT2_GOOD_OLD_FIRST_INO

(* ------------------------------------------------------------------ *)
(* C23  Pass 1 ends whatever the inode iterator does: the error of a   *)
(* single inode gives a warning and the scan goes on with the next     *)
(* inode; an error that comes back at every call, the end marker       *)
(* never delivered, ends the run instead of being retried for ever.    *)
(* ------------------------------------------------------------------ *)
C23_Pass1Terminates == <>(pc # "pass1")

\* the iterator has returned the error of one inode again and again,
\* each time answered by a warning and a new call
C23_FatalErrorRetried ==
  /\ pc = "pass1"
  /\ call.in.kind = "fatal"
  /\ scan = call.in.at
  /\ Len(stderr) = MaxWarnings
  /\ \A k \in DOMAIN stderr :
       stderr[k].warning = "scan error" /\ stderr[k].ino = call.in.at

\* with the errors of single inodes pass 1 ends
ScanErrors_SingleInodeEnds == (call.in.kind # "fatal") => <>(pc # "pass1")

\* the error of one inode: one warning, and the scan has gone on
ScanErrors_WarnedAndSkipped ==
  (call.in.kind = "once" /\ scan > call.in.at) =>
    /\ Len(stderr) = 1
    /\ stderr[1].warning = "scan error"
    /\ stderr[1].ino = call.in.at

ScanErrors_Reached ==
  /\ call.in.kind = "once"
  /\ pc = "pass2"
  /\ Len(stderr) = 1

(* ------------------------------------------------------------------ *)
(* C24  After pass 1 the InodeTable is the strictly ascending sequence *)
(* of the inodes that the iterator delivered without error, that have  *)
(* links_count > 0 and that are inode 2 or not below the first usable  *)
(* inode; is_dir[ino] is set iff ino is such an inode and a directory; *)
(* every record has dirent_offset 0.                                   *)
(* ------------------------------------------------------------------ *)
AfterPass1 == pc = "pass2" /\ index = 0 /\ entry = 0

\* the inodes pass 1 has to record
ScanKept ==
  {ino \in VolumeUsed(vol) : ~(call.in.kind # "none" /\ ino = call.in.at)}

TableInos == [k \in 1 .. inodes.count |->
                inodes.buffer[inodes_elsize * (k - 1)].ino]

InodeTableExact ==
  /\ \A k \in 1 .. inodes.count - 1 : TableInos[k] < TableInos[k + 1]
  /\ Range(TableInos) = ScanKept
  /\ \A k \in 1 .. inodes.count :
       inodes.buffer[inodes_elsize * (k - 1)].dirent = 0

IsDirExact ==
  \A ino \in 1 .. vol.inodes_count :
    bitfield_get(iisdir, ino) = 1 <=> (ino \in ScanKept /\ vol.inode[ino].dir)

C24_TableAfterPass1 == AfterPass1 => (InodeTableExact /\ IsDirExact)

\* pass 1 is over; the last inode is a file in use, and is_dir says it
\* is a directory
C24_FileTakenForDirectory ==
  /\ AfterPass1
  /\ vol.inodes_count \in ScanKept
  /\ ~vol.inode[vol.inodes_count].dir
  /\ bitfield_get(iisdir, vol.inodes_count) = 1

\* with the last inode free the table and is_dir are as stated
TableAfterPass1_LastInodeFree ==
  (AfterPass1 /\ ~LastInodeUsed(vol)) => (InodeTableExact /\ IsDirExact)

\* the table is exact whatever the last inode is
TableAfterPass1_Records == AfterPass1 => InodeTableExact

\* pass 1 is over with two records or more, one inode skipped after
\* its error
TableAfterPass1_Reached ==
  /\ AfterPass1
  /\ ~LastInodeUsed(vol)
  /\ call.in.kind = "once"
  /\ call.in.at \in VolumeUsed(vol)
  /\ inodes.count >= 2
  /\ \E ino \in ScanKept : vol.inode[ino].dir /\ ino # EXT2_ROOT_INO

(* ------------------------------------------------------------------ *)
(* C25  The phases of a run follow one another: no directory is        *)
(* iterated before the inode scan has delivered its end marker, no     *)
(* parent reference is rewritten before the last directory has been    *)
(* iterated, no record is written before every parent reference has    *)
(* been rewritten; the volume is open from the start, is closed once,  *)
(* at the end of pass 2, and is not read after that.                   *)
(* ------------------------------------------------------------------ *)
\* the parent of a stored dirent changes in the step
ParentRewritten ==
  \E off \in DOMAIN dirents.buffer :
    dirents'.buffer[off].parent # dirents.buffer[off].parent

PhaseStates ==
  /\ pc \in {"pass1", "pass2"} => fs_open /\ stdout = <<>>
  /\ pc = "pass1" => dirents.count = 0
  /\ pc = "pass2" => scan > vol.inodes_count
  /\ pc \in {"fixup", "emit"} => ~fs_open /\ scan > vol.inodes_count
  /\ pc = "fixup" => stdout = <<>>
  /\ (Done /\ status = 0) => ~fs_open

PhaseSteps ==
  /\ pc' # pc =>
       \/ pc = "pass1" /\ scan > vol.inodes_count
       \/ pc = "pass2" /\ pc' # "pass1" /\ index + 1 >= inodes.count
       \/ pc = "fixup" /\ pc' \in {"emit", "exit"}
            /\ index + 1 = dirents.count
       \/ pc = "emit" /\ pc' = "exit" /\ index + 1 = dirents.count
       \/ pc' = "exit" /\ status' # 0
  /\ dirents'.count # dirents.count => pc = "pass2"
  /\ ParentRewritten => pc = "fixup"
  /\ stdout' # stdout => pc = "emit"
  /\ fs_open' => fs_open
  /\ (fs_open /\ ~fs_open') =>
       pc \in {"pass1", "pass2"} /\ pc' \notin {"pass1", "pass2"}

Unnamed ==
  {ino \in VolumeUsed(vol) :
     \A at \in DOMAIN dirents.buffer : dirent_ino(Machine, at) # ino}

\* the paths written that fit the buffer whole are paths of the volume
PathsExist ==
  \A k \in DOMAIN stdout : stdout[k].path \in Range(WalkPaths(vol))

C26_UnreachableReported ==
  Done =>
    /\ status = 0
    /\ Unnamed # {} => stderr # <<>>
    /\ PathsExist
    /\ \A ino \in Unnamed : TimesEmitted(ino) = 0

\* the run has ended well without a word on stderr; a directory in use
\* has no name, and a path that the volume does not have is written
C26_UnreachableSilent ==
  /\ Done /\ status = 0
  /\ stderr = <<>>
  /\ \E ino \in Unnamed : vol.inode[ino].dir
  /\ ~PathsExist

\* the run does not fail, and the unnamed inode itself is not written
Unreachable_NotFatal ==
  Done => status = 0 /\ \A ino \in Unnamed : TimesEmitted(ino) = 0

\* a run that ended well on a volume with an unnamed directory
Unreachable_Reached ==
  /\ Done /\ status = 0
  /\ Unnamed # {}
  /\ \A ino \in Unnamed : TimesEmitted(ino) = 0
  /\ Len(stdout) >= 2

(* ------------------------------------------------------------------ *)
(* C27  For every name of 0 to 255 bytes with no NUL in it, the record *)
(* dirent_cb appends has 8 + name_len + pad bytes with pad in 1 .. 4,  *)
(* a multiple of 4, its name ends with a NUL, and it fits struct       *)
(* dirent_t; the length the fix-up and pass 3 compute again from       *)
(* strlen(name) is the same, so that both loops visit the start        *)
(* offsets of the records appended, and stay below bytes_used.         *)
(* ------------------------------------------------------------------ *)
\* the bytes appended by call k
AppendedBytes(k) ==
  (IF k < Len(call.in.offs) THEN call.in.offs[k + 1]
   ELSE call.in.dirents.bytes_used) - call.in.offs[k]

RecordAsStated(k) ==
  LET d   == call.in.dirents.buffer[call.in.offs[k]]
      len == call.in.lens[k]
      pad == AppendedBytes(k) - SIZEOF_DIRENT_EMPTY_T - len
  IN  /\ pad \in 1 .. 4
      /\ AppendedBytes(k) % 4 = 0
      /\ d.name[Len(d.name)] = NUL
      /\ SubSeq(d.name, 1, len) = LongName(EXT2_ROOT_INO + k, len)
      /\ AppendedBytes(k) <= SIZEOF_DIRENT_T
      /\ dirent_stride(d.name) = AppendedBytes(k)

C27_RecordLengths ==
  call.fn = "dirent_cb_append" =>
    /\ call.in.dirents.count = Len(call.in.lens)
    /\ \A k \in DOMAIN call.in.lens : RecordAsStated(k)
    /\ loop_offsets(call.in.dirents, 0, 0) = call.in.offs
    /\ \A k \in DOMAIN call.in.offs :
         call.in.offs[k] < call.in.dirents.bytes_used

\* the longest name, then a name of no byte, then one of a byte: three
\* records, all visited
C27_LongestThenShortest ==
  /\ call.fn = "dirent_cb_append"
  /\ call.in.lens = <<EXT2_NAME_LEN, 0, 1>>
  /\ call.in.dirents.count = 3
  /\ loop_offsets(call.in.dirents, 0, 0) = call.in.offs
  /\ AppendedBytes(1) = SIZEOF_DIRENT_EMPTY_T + EXT2_NAME_LEN + 1

(* ------------------------------------------------------------------ *)
(* C28  When e2find ends with a status that is not 0, nothing has been *)
(* written to stdout: every failure lies before the first record, and  *)
(* once records are written the run can only end with status 0.        *)
(* ------------------------------------------------------------------ *)
C28_NoOutputBeforeFailure == (Done /\ status # 0) => stdout = <<>>

\* records have been written, and the run has ended on the bit of the
\* last inode, read behind the allocation in memory that is not there
C28_FailureAfterOutput ==
  /\ Done
  /\ status = SEGV_STATUS
  /\ stdout # <<>>
  /\ LastInodeUsed(vol)

\* the statuses of exit() and err() come with no output
NoOutput_ExitStatuses ==
  (Done /\ status \in StartupExits \cup {8}) => stdout = <<>>

\* with the last inode free no failure follows a record
NoOutput_LastInodeFree ==
  (Done /\ status # 0 /\ ~LastInodeUsed(vol)) => stdout = <<>>

\* a run that failed at its start
NoOutput_Reached ==
  /\ Done
  /\ status \in StartupExits
  /\ stdout = <<>>
  /\ ~LastInodeUsed(vol)

(* ------------------------------------------------------------------ *)
(* C29: the cost of inode_lookup                                       *)
(* ------------------------------------------------------------------ *)
RECURSIVE FloorLog2(_)
FloorLog2(n) == IF n <= 1 THEN 0 ELSE 1 + FloorLog2(n \div 2)

LookupCost == Len(call.out[1].reads)

\* the reads that follow the bisection probes: one probe for every halving
\* of count that is still above 1, unless a probe hits the inode
BisectionProbes(n) == IF n < 4 THEN 0 ELSE FloorLog2(n) - 1

\* C29: on a strictly ascending InodeTable of n >= 1 records, a lookup of an
\* inode the table holds finds it and reads at most 2 * floor(log2(n)) + 3
\* records, bisection probes and final linear walk together.
C29_LookupCostLogarithmic ==
  (call.fn = "inode_lookup" /\ Called) =>
    /\ call.out[1].found
    /\ ~call.out[1].runaway
    /\ LookupCost <= 2 * FloorLog2(call.in.inodes.count) + 3

\* a lookup in a table of 255 records that walks 9 records after its 6
\* bisection probes
C29_WalkAfterBisection ==
  /\ call.fn = "inode_lookup" /\ Called
  /\ call.in.inodes.count = 255
  /\ call.out[1].found
  /\ LookupCost = BisectionProbes(255) + 9

(* ------------------------------------------------------------------ *)
(* C30: what e2find-alt prints with --after                            *)
(* ------------------------------------------------------------------ *)
\* the inodes pass 1 selects: --after is not given, or the inode is as
\* new as it asks by its mtime or by its ctime
AltSelected(ino) ==
  \/ call.in.after = U32Zero
  \/ U32Ge(call.in.vol.inode[ino].mtime, call.in.after)
  \/ U32Ge(call.in.vol.inode[ino].ctime, call.in.after)

AltPrinted == {call.in.m.out[k].ino : k \in DOMAIN call.in.m.out}

\* the flags pass 1 has stored for an inode
AltFlags(ino) ==
  {call.in.m.imatch.buffer[off].flags :
     off \in {o \in DOMAIN call.in.m.imatch.buffer :
                call.in.m.imatch.buffer[o].ino = ino}}

\* C30: with --after T, e2find-alt prints a path only for the inodes pass 1
\* selected (mtime >= T or ctime >= T); a directory stored with IMATCH_DIR
\* alone is never printed.
C30_OnlySelectedPrinted ==
  (AltRuns /\ call.in.after # U32Zero) =>
    \A ino \in AltPrinted : AltSelected(ino)

\* a directory older than T, stored with IMATCH_DIR alone, has been printed
C30_UnselectedDirectoryPrinted ==
  /\ AltRuns /\ call.in.after # U32Zero
  /\ \E ino \in AltPrinted :
       /\ ino # EXT2_ROOT_INO
       /\ call.in.vol.inode[ino].dir
       /\ ~AltSelected(ino)
       /\ AltFlags(ino) = {IMATCH_DIR}

\* what holds of the filter: every inode printed has a record, and a file
\* that is not selected has none, so it is never printed
AltFilter_UnselectedFilesAbsent ==
  AltRuns =>
    \A ino \in AltPrinted :
      /\ AltFlags(ino) # {}
      /\ call.in.vol.inode[ino].dir \/ AltSelected(ino)

\* a run with --after has ended with status 0 after printing a selected
\* file and leaving out a file that is not selected
AltFilter_Reached ==
  /\ AltRuns /\ call.in.after # U32Zero
  /\ call.in.m.pc = "exit" /\ call.in.m.status = 0
  /\ \E ino \in AltPrinted : ~call.in.vol.inode[ino].dir /\ AltSelected(ino)
  /\ \E ino \in VolumeUsed(call.in.vol) \ AltPrinted :
       ~call.in.vol.inode[ino].dir /\ ~AltSelected(ino)

====
